---------------------------- MODULE Spec2Model ----------------------------
(***************************************************************************)
(* Device fingerprint pipeline (src/src/lib/deviceHash.ts), the profile    *)
(* store (src/src/store/deviceStore.ts and the store variant appended to   *)
(* src/src/App.tsx), App's init effect, the wallet listener and the        *)
(* comparator of the UserIdentity component (src/unnamed/part_001,         *)
(* part_002).                                                              *)
(*                                                                         *)
(* JavaScript strings that are searched, joined or hashed are sequences of *)
(* UTF-16 code units (all ASCII here); strings that are only stored and    *)
(* compared are TLA+ strings.                                              *)
(***************************************************************************)
EXTENDS Integers, Sequences, FiniteSets, TLC

(***************************************************************************)
(* String literals of the source, as code-unit sequences.                  *)
(***************************************************************************)
Lit ==
    [ S_NO_WEBGL |-> <<78, 79, 95, 87, 69, 66, 71, 76>>,   \* "NO_WEBGL"
      S_ERROR |-> <<69, 82, 82, 79, 82>>,   \* "ERROR"
      S_NVIDIA |-> <<78, 86, 73, 68, 73, 65>>,   \* "NVIDIA"
      S_AMD |-> <<65, 77, 68>>,   \* "AMD"
      S_INTEL |-> <<73, 78, 84, 69, 76>>,   \* "INTEL"
      S_APPLE |-> <<65, 80, 80, 76, 69>>,   \* "APPLE"
      S_QUALCOMM |-> <<81, 85, 65, 76, 67, 79, 77, 77>>,   \* "QUALCOMM"
      S_ARM |-> <<65, 82, 77>>,   \* "ARM"
      S_OTHER |-> <<79, 84, 72, 69, 82>>,   \* "OTHER"
      S_UNKNOWN |-> <<85, 78, 75, 78, 79, 87, 78>>,   \* "UNKNOWN"
      S_LOW_2 |-> <<76, 79, 87, 95, 50>>,   \* "LOW_2"
      S_MID_4 |-> <<77, 73, 68, 95, 52>>,   \* "MID_4"
      S_HIGH_8 |-> <<72, 73, 71, 72, 95, 56>>,   \* "HIGH_8"
      S_ULTRA_8 |-> <<85, 76, 84, 82, 65, 95, 56, 43>>,   \* "ULTRA_8+"
      S_4_3 |-> <<52, 58, 51>>,   \* "4:3"
      S_3_2 |-> <<51, 58, 50>>,   \* "3:2"
      S_16_10 |-> <<49, 54, 58, 49, 48>>,   \* "16:10"
      S_16_9 |-> <<49, 54, 58, 57>>,   \* "16:9"
      S_19_5_9 |-> <<49, 57, 46, 53, 58, 57>>,   \* "19.5:9"
      S_21_9 |-> <<50, 49, 58, 57, 43>>,   \* "21:9+"
      S_NONE |-> <<78, 79, 78, 69>>,   \* "NONE"
      S_BASIC |-> <<66, 65, 83, 73, 67>>,   \* "BASIC"
      S_MULTI |-> <<77, 85, 76, 84, 73>>,   \* "MULTI"
      S_FULL |-> <<70, 85, 76, 76>>,   \* "FULL"
      S_MOUSE |-> <<77, 79, 85, 83, 69>>,   \* "MOUSE"
      S_TOUCH |-> <<84, 79, 85, 67, 72>>,   \* "TOUCH"
      S_HYBRID |-> <<72, 89, 66, 82, 73, 68>>,   \* "HYBRID"
      S_WINDOWS |-> <<87, 73, 78, 68, 79, 87, 83>>,   \* "WINDOWS"
      S_MAC |-> <<77, 65, 67>>,   \* "MAC"
      S_LINUX |-> <<76, 73, 78, 85, 88>>,   \* "LINUX"
      S_IOS |-> <<73, 79, 83>>,   \* "IOS"
      S_ANDROID |-> <<65, 78, 68, 82, 79, 73, 68>>,   \* "ANDROID"
      S_true |-> <<116, 114, 117, 101>>,   \* "true"
      S_false |-> <<102, 97, 108, 115, 101>>,   \* "false"
      K_nvidia |-> <<110, 118, 105, 100, 105, 97>>,   \* "nvidia"
      K_geforce |-> <<103, 101, 102, 111, 114, 99, 101>>,   \* "geforce"
      K_amd |-> <<97, 109, 100>>,   \* "amd"
      K_radeon |-> <<114, 97, 100, 101, 111, 110>>,   \* "radeon"
      K_intel |-> <<105, 110, 116, 101, 108>>,   \* "intel"
      K_apple |-> <<97, 112, 112, 108, 101>>,   \* "apple"
      K_qualcomm |-> <<113, 117, 97, 108, 99, 111, 109, 109>>,   \* "qualcomm"
      K_adreno |-> <<97, 100, 114, 101, 110, 111>>,   \* "adreno"
      K_arm |-> <<97, 114, 109>>,   \* "arm"
      K_mali |-> <<109, 97, 108, 105>>,   \* "mali"
      P_Win |-> <<87, 105, 110>>,   \* "Win"
      P_Mac |-> <<77, 97, 99>>,   \* "Mac"
      P_Linux |-> <<76, 105, 110, 117, 120>>,   \* "Linux"
      P_iPhone |-> <<105, 80, 104, 111, 110, 101>>,   \* "iPhone"
      P_iPad |-> <<105, 80, 97, 100>>,   \* "iPad"
      P_Android |-> <<65, 110, 100, 114, 111, 105, 100>>,   \* "Android"
      TZ_Asia_Kolkata |-> <<65, 115, 105, 97, 47, 75, 111, 108, 107, 97, 116, 97>>,   \* "Asia/Kolkata"
      TZ_Asia_Calcutta |-> <<65, 115, 105, 97, 47, 67, 97, 108, 99, 117, 116, 116, 97>>,   \* "Asia/Calcutta"
      TZ_Asia_Kathmandu |-> <<65, 115, 105, 97, 47, 75, 97, 116, 104, 109, 97, 110, 100, 117>>,   \* "Asia/Kathmandu"
      TZ_Asia_Katmandu |-> <<65, 115, 105, 97, 47, 75, 97, 116, 109, 97, 110, 100, 117>>,   \* "Asia/Katmandu"
      TZ_America_Montreal |-> <<65, 109, 101, 114, 105, 99, 97, 47, 77, 111, 110, 116, 114, 101, 97, 108>>,   \* "America/Montreal"
      TZ_America_Toronto |-> <<65, 109, 101, 114, 105, 99, 97, 47, 84, 111, 114, 111, 110, 116, 111>>,   \* "America/Toronto"
      TZ_Europe_Kyiv |-> <<69, 117, 114, 111, 112, 101, 47, 75, 121, 105, 118>>,   \* "Europe/Kyiv"
      TZ_Europe_Kiev |-> <<69, 117, 114, 111, 112, 101, 47, 75, 105, 101, 118>>,   \* "Europe/Kiev"
      TZ_Europe_Berlin |-> <<69, 117, 114, 111, 112, 101, 47, 66, 101, 114, 108, 105, 110>>,   \* "Europe/Berlin"
      SEP |-> <<124, 124>>,   \* "||"
      S_dash |-> <<45>>,   \* "-"
      S_CPU |-> <<67, 80, 85, 58>>,   \* "CPU:"
      S_SCR |-> <<124, 83, 67, 82, 58>>,   \* "|SCR:"
      S_RATIO |-> <<124, 82, 65, 84, 73, 79, 58>>,   \* "|RATIO:"
      S_undefined |-> <<117, 110, 100, 101, 102, 105, 110, 101, 100>>,   \* "undefined"
      S_null |-> <<110, 117, 108, 108>> ]   \* "null"

(***************************************************************************)
(* Raw values an environment may report (inputs of the model).             *)
(***************************************************************************)
Sample ==
    [ R_AngleNvidia |-> <<65, 78, 71, 76, 69, 32, 40, 78, 86, 73, 68, 73, 65, 32, 71, 101, 70, 111, 114, 99, 101, 32, 82, 84, 88, 32, 51, 48, 56, 48, 32, 68, 105, 114, 101, 99, 116, 51, 68, 49, 49, 32, 118, 115, 95, 53, 95, 48, 32, 112, 115, 95, 53, 95, 48, 41>>,   \* "ANGLE (NVIDIA GeForce RTX 3080 Direct3D11 vs_5_0 ps_5_0)"
      R_WebKitWebGL |-> <<87, 101, 98, 75, 105, 116, 32, 87, 101, 98, 71, 76>>,   \* "WebKit WebGL"
      R_WebKit |-> <<87, 101, 98, 75, 105, 116>>,   \* "WebKit"
      R_AppleGPU |-> <<65, 112, 112, 108, 101, 32, 71, 80, 85>>,   \* "Apple GPU"
      R_AngleRadeon |-> <<65, 78, 71, 76, 69, 32, 40, 65, 77, 68, 32, 82, 97, 100, 101, 111, 110, 32, 82, 88, 32, 53, 56, 48, 41>>,   \* "ANGLE (AMD Radeon RX 580)"
      R_IntelIris |-> <<73, 110, 116, 101, 108, 32, 73, 114, 105, 115, 32, 79, 112, 101, 110, 71, 76, 32, 69, 110, 103, 105, 110, 101>>,   \* "Intel Iris OpenGL Engine"
      R_Adreno |-> <<65, 100, 114, 101, 110, 111, 32, 40, 84, 77, 41, 32, 54, 52, 48>>,   \* "Adreno (TM) 640"
      R_MaliG78 |-> <<77, 97, 108, 105, 45, 71, 55, 56>>,   \* "Mali-G78"
      R_Llvmpipe |-> <<108, 108, 118, 109, 112, 105, 112, 101>>,   \* "llvmpipe"
      R_Empty |-> <<>>,   \* ""
      N_Win32 |-> <<87, 105, 110, 51, 50>>,   \* "Win32"
      N_MacIntel |-> <<77, 97, 99, 73, 110, 116, 101, 108>>,   \* "MacIntel"
      N_LinuxX86 |-> <<76, 105, 110, 117, 120, 32, 120, 56, 54, 95, 54, 52>>,   \* "Linux x86_64"
      N_iPhone |-> <<105, 80, 104, 111, 110, 101>>,   \* "iPhone"
      N_LinuxArmAndroid |-> <<76, 105, 110, 117, 120, 32, 97, 114, 109, 118, 56, 108>>,   \* "Linux armv8l"
      N_Android |-> <<65, 110, 100, 114, 111, 105, 100>>,   \* "Android"
      N_FreeBSD |-> <<70, 114, 101, 101, 66, 83, 68, 32, 97, 109, 100, 54, 52>>,   \* "FreeBSD amd64"
      M_V8 |-> <<45, 49, 46, 52, 50, 49, 52, 52, 56, 56, 50, 51, 57, 44, 48, 46, 56, 52, 49, 52, 55, 48, 57, 56, 52, 56, 44, 48, 46, 53, 52, 48, 51, 48, 50, 51, 48, 53, 57, 44, 50, 46, 55, 49, 56, 50, 56, 49, 56, 50, 56, 53, 44, 48, 46, 54, 57, 51, 49, 52, 55, 49, 56, 48, 54, 44, 49, 46, 52, 49, 52, 50, 49, 51, 53, 54, 50, 52, 44, 48, 46, 52, 54, 51, 54, 52, 55, 54, 48, 57, 48, 44, 48, 46, 48, 48, 48, 48, 48, 48, 48, 48, 48, 48>>,   \* "-1.4214488239,0.8414709848,0.5403023059,2.7182818285,0.6931471806,1.4142135624,0.4636476090,0.0000000000"
      M_Gecko |-> <<45, 52, 46, 57, 56, 55, 55, 53, 53, 57, 50, 55, 57, 44, 48, 46, 56, 52, 49, 52, 55, 48, 57, 56, 52, 56, 44, 48, 46, 53, 52, 48, 51, 48, 50, 51, 48, 53, 57, 44, 50, 46, 55, 49, 56, 50, 56, 49, 56, 50, 56, 53, 44, 48, 46, 54, 57, 51, 49, 52, 55, 49, 56, 48, 54, 44, 49, 46, 52, 49, 52, 50, 49, 51, 53, 54, 50, 52, 44, 48, 46, 52, 54, 51, 54, 52, 55, 54, 48, 57, 48, 44, 48, 46, 48, 48, 48, 48, 48, 48, 48, 48, 48, 48>> ]   \* "-4.9877559279,0.8414709848,0.5403023059,2.7182818285,0.6931471806,1.4142135624,0.4636476090,0.0000000000"

(***************************************************************************)
(* State.                                                                  *)
(*   env     the ambient environment the extractors read                   *)
(*   rel     which versions of the sources are deployed                    *)
(*   store   the zustand store: profile, isLoading, error                  *)
(*   pc      position of App's init effect in the current page load        *)
(*   result  the settled value of the generateProfile promise init awaits  *)
(*   wallet  the wallet listener: the eth_accounts request, the            *)
(*           accountsChanged subscription, notifications delivered         *)
(*   ui      the UserIdentity component: signals, compareInput,            *)
(*           compareData, compareError; pasted names the text last         *)
(*           submitted to handleCompare                                    *)
(*   loads   page loads so far                                             *)
(*   runs    the results of the generateProfile calls so far, one per load *)
(*   probe   one call of a library function on its own: the function, its  *)
(*           arguments, and the value returned once the call has run       *)
(*   speech  window.speechSynthesis, the module variable                   *)
(*           cachedVoicesFingerprint and the getVoicesFingerprint calls    *)
(***************************************************************************)
VARIABLES env, rel, store, pc, result, wallet, ui, loads, runs, probe, speech

vars == <<env, rel, store, pc, result, wallet, ui, loads, runs, probe, speech>>

(***************************************************************************)
(* Bounds of the model.                                                    *)
(***************************************************************************)
\* page loads (the first one and the reloads of handleRecalculate)
MaxLoads == 2
\* accountsChanged notifications delivered per page load
MaxWalletEvents == 2

\* calls of getVoicesFingerprint in one page load
MaxVoiceCalls == 2

\* voiceschanged notifications in one page load
MaxVoiceEvents == 2

(***************************************************************************)
(* String primitives of the JavaScript runtime.                            *)
(***************************************************************************)
\* String.prototype.toLowerCase on ASCII
ToLowerCase(s) ==
    [i \in 1..Len(s) |-> IF s[i] >= 65 /\ s[i] <= 90 THEN s[i] + 32 ELSE s[i]]

\* String.prototype.startsWith
StartsWith(s, p) ==
    /\ Len(p) <= Len(s)
    /\ SubSeq(s, 1, Len(p)) = p

\* String.prototype.includes
Includes(s, p) ==
    \E i \in 0..(Len(s) - Len(p)) : SubSeq(s, i + 1, i + Len(p)) = p

\* String.prototype.substring(0, n)
Substring0(s, n) ==
    IF Len(s) <= n THEN s ELSE SubSeq(s, 1, n)

RECURSIVE DecDigits(_)
\* decimal digits of a natural number, most significant first
DecDigits(n) ==
    IF n < 10 THEN <<48 + n>> ELSE Append(DecDigits(n \div 10), 48 + (n % 10))

\* String(n) for an integer n
NumToString(n) ==
    IF n < 0 THEN <<45>> \o DecDigits(0 - n) ELSE DecDigits(n)

\* String(b) for a boolean b
BoolToString(b) ==
    IF b THEN Lit.S_true ELSE Lit.S_false

RECURSIVE Join(_, _)
\* Array.prototype.join(sep) over an array of strings
Join(parts, sep) ==
    IF Len(parts) = 0 THEN <<>>
    ELSE IF Len(parts) = 1 THEN parts[1]
    ELSE parts[1] \o sep \o Join(Tail(parts), sep)

\* one hexadecimal digit
HexDigit(d) ==
    IF d < 10 THEN 48 + d ELSE 87 + d

\* Number.prototype.toString(16) followed by padStart(2, '0'), for a byte
ByteToHex(b) ==
    <<HexDigit(b \div 16), HexDigit(b % 16)>>

(***************************************************************************)
(* sha256: the digest with its fallback.  32-bit words are kept as two     *)
(* 16-bit limbs [hi, lo] so that no intermediate value leaves the range of *)
(* TLC's integers; the arithmetic is that of the source modulo     *)
(* 2^32.                                                                   *)
(***************************************************************************)
\* the loop body adding the shifted hash instead of subtracting: 33*h + c
HashStep_Adds(h, c) ==
    LET t == 33 * h.lo + c
    IN  [lo |-> t % 65536, hi |-> (33 * h.hi + (t \div 65536)) % 65536]

\* hash = ((hash << 5) - hash) + charCode; hash = hash & hash
HashStep(h, c) ==
    LET t == 31 * h.lo + c
    IN  [lo |-> t % 65536, hi |-> (31 * h.hi + (t \div 65536)) % 65536]

RECURSIVE HashChars(_, _, _, _)
\* the loop body applied to message.charCodeAt(i) for i = from-1 .. to-1
HashChars(h, message, from, to) ==
    IF from > to THEN h
    ELSE LET next == HashStep(h, message[from])
         IN  IF next.lo >= 0 THEN HashChars(next, message, from + 1, to) ELSE next

RECURSIVE HashLoop(_, _, _)
\* the for loop over the characters of message from index from-1 on, taken
\* sixteen iterations at a time to keep the evaluation shallow
HashLoop(h, message, from) ==
    IF from > Len(message) THEN h
    ELSE LET to == IF from + 15 <= Len(message) THEN from + 15 ELSE Len(message)
             next == HashChars(h, message, from, to)
         IN  IF next.lo >= 0 THEN HashLoop(next, message, to + 1) ELSE next

\* Math.abs of the signed 32-bit value of the limbs
AbsInt32(h) ==
    IF h.hi < 32768 THEN h
    ELSE IF h.lo = 0 THEN [hi |-> 65536 - h.hi, lo |-> 0]
    ELSE [hi |-> 65535 - h.hi, lo |-> 65536 - h.lo]

RECURSIVE StripZeros(_)
\* toString(16) prints no leading zeros, and "0" for zero
StripZeros(digits) ==
    IF Len(digits) > 1 /\ digits[1] = 48 THEN StripZeros(Tail(digits)) ELSE digits

\* Number.prototype.toString(16) of a non-negative value given by its limbs
ToHexString(m) ==
    StripZeros(<< HexDigit(m.hi \div 4096), HexDigit((m.hi \div 256) % 16),
                  HexDigit((m.hi \div 16) % 16), HexDigit(m.hi % 16),
                  HexDigit(m.lo \div 4096), HexDigit((m.lo \div 256) % 16),
                  HexDigit((m.lo \div 16) % 16), HexDigit(m.lo % 16) >>)

\* the fallback branch of sha256
FallbackHash(message) ==
    ToHexString(AbsInt32(HashLoop([hi |-> 0, lo |-> 0], message, 1)))

\* crypto.subtle.digest('SHA-256', ...) is a service of the platform, not of
\* the repository: an ideal hash.  Its 32 bytes are a fixed function of the
\* message, and the digest carries its preimage, so that two digests are
\* equal exactly when the messages are.
SubtleDigest(message) ==
    LET h == HashLoop([hi |-> 24929, lo |-> 40503], message, 1)
    IN  [bytes |-> [i \in 1..32 |-> (h.lo + i * h.hi + i * i * Len(message)) % 256],
         of    |-> message]

RECURSIVE HexOfBytes(_)
\* Array.from(new Uint8Array(hashBuffer)).map(b => hex2(b)).join('')
HexOfBytes(bytes) ==
    IF Len(bytes) = 0 THEN <<>>
    ELSE ByteToHex(Head(bytes)) \o HexOfBytes(Tail(bytes))

\* sha256 without the try/catch around the cryptographic path: an absent
\* crypto.subtle still takes the fallback, a throw or rejection rejects
sha256_Unguarded(subtle, message) ==
    IF subtle = "ok"
    THEN LET d == SubtleDigest(message)
         IN  [via |-> "subtle", hex |-> HexOfBytes(d.bytes), of |-> d.of]
    ELSE IF subtle = "absent"
    THEN [via |-> "fallback", hex |-> FallbackHash(message), of |-> <<>>]
    ELSE [via |-> "rejected", hex |-> <<>>, of |-> <<>>]

\* sha256(message) in an environment whose crypto.subtle is `subtle`:
\* "ok" (digest resolves), "absent" (no crypto or no crypto.subtle),
\* "throws" (digest or TextEncoder throws), "rejects" (digest rejects).
\* A digest is [via, hex, of]: the path taken, the returned string, and on
\* the cryptographic path the preimage of the ideal hash.
sha256(subtle, message) ==
    IF subtle = "ok"
    THEN LET d == SubtleDigest(message)
         IN  [via |-> "subtle", hex |-> HexOfBytes(d.bytes), of |-> d.of]
    ELSE [via |-> "fallback", hex |-> FallbackHash(message), of |-> <<>>]

(***************************************************************************)
(* normalize(type, data).  data is a string; the empty string stands for   *)
(* both null and "" (the source tests !data).                              *)
(***************************************************************************)
\* the property names an object literal inherits from Object.prototype
ObjectPrototypeKeys ==
    { <<99, 111, 110, 115, 116, 114, 117, 99, 116, 111, 114>>,   \* "constructor"
      <<116, 111, 83, 116, 114, 105, 110, 103>>,   \* "toString"
      <<118, 97, 108, 117, 101, 79, 102>>,   \* "valueOf"
      <<104, 97, 115, 79, 119, 110, 80, 114, 111, 112, 101, 114, 116, 121>>,   \* "hasOwnProperty"
      <<105, 115, 80, 114, 111, 116, 111, 116, 121, 112, 101, 79, 102>>,   \* "isPrototypeOf"
      <<112, 114, 111, 112, 101, 114, 116, 121, 73, 115, 69, 110, 117, 109, 101, 114, 97, 98, 108, 101>>,   \* "propertyIsEnumerable"
      <<116, 111, 76, 111, 99, 97, 108, 101, 83, 116, 114, 105, 110, 103>>,   \* "toLocaleString"
      <<95, 95, 112, 114, 111, 116, 111, 95, 95>>,   \* "__proto__"
      <<95, 95, 100, 101, 102, 105, 110, 101, 71, 101, 116, 116, 101, 114, 95, 95>>,   \* "__defineGetter__"
      <<95, 95, 100, 101, 102, 105, 110, 101, 83, 101, 116, 116, 101, 114, 95, 95>>,   \* "__defineSetter__"
      <<95, 95, 108, 111, 111, 107, 117, 112, 71, 101, 116, 116, 101, 114, 95, 95>>,   \* "__lookupGetter__"
      <<95, 95, 108, 111, 111, 107, 117, 112, 83, 101, 116, 116, 101, 114, 95, 95>> }   \* "__lookupSetter__"

\* a value that is not a string: the function or object found under an
\* inherited property name
InheritedMember == << -1 >>

\* a sequence of UTF-16 code units
IsString(v) == \A i \in DOMAIN v : v[i] \in 0..65535

\* mapping[data] || data: the lookup finds the four own properties of the
\* table and the members inherited from Object.prototype, all truthy
TimezoneMapping(data) ==
    IF data = Lit.TZ_Asia_Kolkata THEN Lit.TZ_Asia_Calcutta
    ELSE IF data = Lit.TZ_Asia_Kathmandu THEN Lit.TZ_Asia_Katmandu
    ELSE IF data = Lit.TZ_America_Montreal THEN Lit.TZ_America_Toronto
    ELSE IF data = Lit.TZ_Europe_Kyiv THEN Lit.TZ_Europe_Kiev
    ELSE IF data \in ObjectPrototypeKeys THEN InheritedMember
    ELSE data

\* normalize with the substring rules of the platform branch tried before
\* the prefix rules
normalize_SubstringsFirst(type, data) ==
    IF data = <<>> THEN Lit.S_UNKNOWN
    ELSE IF type = "timezone" THEN TimezoneMapping(data)
    ELSE IF type = "platform" THEN
        IF Includes(data, Lit.P_iPhone) \/ Includes(data, Lit.P_iPad) THEN Lit.S_IOS
        ELSE IF Includes(data, Lit.P_Android) THEN Lit.S_ANDROID
        ELSE IF StartsWith(data, Lit.P_Win) THEN Lit.S_WINDOWS
        ELSE IF StartsWith(data, Lit.P_Mac) THEN Lit.S_MAC
        ELSE IF StartsWith(data, Lit.P_Linux) THEN Lit.S_LINUX
        ELSE Lit.S_OTHER
    ELSE data

\* normalize(type, data)
normalize(type, data) ==
    IF data = <<>> THEN Lit.S_UNKNOWN
    ELSE IF type = "timezone" THEN TimezoneMapping(data)
    ELSE IF type = "platform" THEN
        IF StartsWith(data, Lit.P_Win) THEN Lit.S_WINDOWS
        ELSE IF StartsWith(data, Lit.P_Mac) THEN Lit.S_MAC
        ELSE IF StartsWith(data, Lit.P_Linux) THEN Lit.S_LINUX
        ELSE IF Includes(data, Lit.P_iPhone) \/ Includes(data, Lit.P_iPad) THEN Lit.S_IOS
        ELSE IF Includes(data, Lit.P_Android) THEN Lit.S_ANDROID
        ELSE Lit.S_OTHER
    ELSE data

(***************************************************************************)
(* Signal extractors.  Each reads the environment e and yields             *)
(* [thrown, v]: thrown is TRUE when the call raises (v is then unused).    *)
(***************************************************************************)
Returns(v) == [thrown |-> FALSE, v |-> v]
Throws == [thrown |-> TRUE, v |-> <<>>]

\* e.gl: "ok", "none" (getContext yields null for both names) or "throws"
getGPUVendor(e) ==
    IF e.gl = "throws" THEN Returns(Lit.S_ERROR)
    ELSE IF e.gl = "none" THEN Returns(Lit.S_NO_WEBGL)
    ELSE
        LET renderer == ToLowerCase(e.glRenderer)
            vendor == ToLowerCase(e.glVendor)
            unmaskedRenderer == IF e.glDebugInfo THEN ToLowerCase(e.glUnmasked) ELSE <<>>
            combined == vendor \o <<32>> \o renderer \o <<32>> \o unmaskedRenderer
        IN  IF Includes(combined, Lit.K_nvidia) \/ Includes(combined, Lit.K_geforce)
              THEN Returns(Lit.S_NVIDIA)
            ELSE IF Includes(combined, Lit.K_amd) \/ Includes(combined, Lit.K_radeon)
              THEN Returns(Lit.S_AMD)
            ELSE IF Includes(combined, Lit.K_intel) THEN Returns(Lit.S_INTEL)
            ELSE IF Includes(combined, Lit.K_apple) THEN Returns(Lit.S_APPLE)
            ELSE IF Includes(combined, Lit.K_qualcomm) \/ Includes(combined, Lit.K_adreno)
              THEN Returns(Lit.S_QUALCOMM)
            ELSE IF Includes(combined, Lit.K_arm) \/ Includes(combined, Lit.K_mali)
              THEN Returns(Lit.S_ARM)
            ELSE Returns(Lit.S_OTHER)

\* e.hardwareConcurrency: 0 also stands for undefined (cores = x || 0)
getCPUBucket(e) ==
    LET cores == e.hardwareConcurrency
    IN  IF cores = 0 THEN Returns(Lit.S_UNKNOWN)
        ELSE IF cores <= 2 THEN Returns(Lit.S_LOW_2)
        ELSE IF cores <= 4 THEN Returns(Lit.S_MID_4)
        ELSE IF cores <= 8 THEN Returns(Lit.S_HIGH_8)
        ELSE Returns(Lit.S_ULTRA_8)

\* ratio < num/10 for ratio = hi / lo computed in floating point: with
\* lo = 0 the ratio is Infinity or NaN and every comparison is false
RatioBelow(hi, lo, num) ==
    /\ lo > 0
    /\ 10 * hi < num * lo

getScreenRatio(e) ==
    LET w == e.screenWidth
        h == e.screenHeight
        hi == IF w >= h THEN w ELSE h
        lo == IF w >= h THEN h ELSE w
    IN  IF RatioBelow(hi, lo, 14) THEN Returns(Lit.S_4_3)
        ELSE IF RatioBelow(hi, lo, 16) THEN Returns(Lit.S_3_2)
        ELSE IF RatioBelow(hi, lo, 18) THEN Returns(Lit.S_16_10)
        ELSE IF RatioBelow(hi, lo, 20) THEN Returns(Lit.S_16_9)
        ELSE IF RatioBelow(hi, lo, 22) THEN Returns(Lit.S_19_5_9)
        ELSE Returns(Lit.S_21_9)

\* e.maxTouchPoints: 0 also stands for undefined
getTouchSupport(e) ==
    LET maxTouch == e.maxTouchPoints
    IN  IF maxTouch = 0 THEN Returns(Lit.S_NONE)
        ELSE IF maxTouch <= 2 THEN Returns(Lit.S_BASIC)
        ELSE IF maxTouch <= 5 THEN Returns(Lit.S_MULTI)
        ELSE Returns(Lit.S_FULL)

\* window.matchMedia(query).matches; e.matchMedia is "ok", "absent"
\* (window.matchMedia is undefined: the call is a TypeError) or "throws"
MatchMedia(e, query) ==
    IF e.matchMedia = "ok" THEN Returns(e.media[query]) ELSE Throws

getHDRSupport(e) == MatchMedia(e, "hdr")

getReducedMotion(e) == MatchMedia(e, "reduce")

getHoverCapability(e) ==
    LET hover == MatchMedia(e, "hover")
        pointer == MatchMedia(e, "fine")
    IN  IF hover.thrown \/ pointer.thrown THEN Throws
        ELSE IF hover.v /\ pointer.v THEN Returns(Lit.S_MOUSE)
        ELSE IF ~hover.v /\ ~pointer.v THEN Returns(Lit.S_TOUCH)
        ELSE Returns(Lit.S_HYBRID)

\* navigator.pdfViewerEnabled ?? true
getPDFViewer(e) ==
    IF e.pdfViewerEnabled = "undefined" THEN Returns(TRUE)
    ELSE Returns(e.pdfViewerEnabled = "true")

\* e.mathJoined is rounded.join(',') as the engine computes it
getMathFingerprint(e) == Returns(Substring0(e.mathJoined, 50))

getPlatform(e) == Returns(normalize("platform", e.platform))

getTimezoneOffset(e) == Returns(e.tzOffset)

getColorDepth(e) == Returns(e.colorDepth)

getAvailableScreen(e) ==
    LET availH == e.availHeight
    IN  IF availH < 600 THEN Returns(<<83>>)
        ELSE IF availH < 800 THEN Returns(<<77>>)
        ELSE IF availH < 1000 THEN Returns(<<76>>)
        ELSE IF availH < 1200 THEN Returns(<<88, 76>>)
        ELSE Returns(<<88, 88, 76>>)

(***************************************************************************)
(* JavaScript values of the signal set: [t, s, n, b] with t the type tag.  *)
(***************************************************************************)
JStr(s) == [t |-> "string", s |-> s, n |-> 0, b |-> FALSE]
JNum(n) == [t |-> "number", s |-> <<>>, n |-> n, b |-> FALSE]
JBool(b) == [t |-> "boolean", s |-> <<>>, n |-> 0, b |-> b]
JUndefined == [t |-> "undefined", s |-> <<>>, n |-> 0, b |-> FALSE]
JNull == [t |-> "null", s |-> <<>>, n |-> 0, b |-> FALSE]

\* String(v), also the conversion Array.prototype.join applies to a
\* string, number or boolean element
ToStringJS(v) ==
    IF v.t = "string" THEN v.s
    ELSE IF v.t = "number" THEN NumToString(v.n)
    ELSE IF v.t = "boolean" THEN BoolToString(v.b)
    ELSE IF v.t = "null" THEN Lit.S_null
    ELSE Lit.S_undefined

\* ToBoolean(v)
Truthy(v) ==
    IF v.t = "string" THEN v.s /= <<>>
    ELSE IF v.t = "number" THEN v.n /= 0
    ELSE IF v.t = "boolean" THEN v.b
    ELSE FALSE

\* v is null or undefined
Nullish(v) == v.t \in {"null", "undefined"}

(***************************************************************************)
(* The signal set: the object literal `signals` of generateProfile and of  *)
(* getSignals.                                                             *)
(***************************************************************************)
\* the extractor behind each field, with the conversion to a tagged value
Extract(e, key) ==
    LET str(r) == [thrown |-> r.thrown, v |-> IF r.thrown THEN JUndefined ELSE JStr(r.v)]
        num(r) == [thrown |-> r.thrown, v |-> IF r.thrown THEN JUndefined ELSE JNum(r.v)]
        bool(r) == [thrown |-> r.thrown, v |-> IF r.thrown THEN JUndefined ELSE JBool(r.v)]
    IN  CASE key = "gpuVendor" -> str(getGPUVendor(e))
          [] key = "cpuBucket" -> str(getCPUBucket(e))
          [] key = "screenRatio" -> str(getScreenRatio(e))
          [] key = "availScreen" -> str(getAvailableScreen(e))
          [] key = "colorDepth" -> num(getColorDepth(e))
          [] key = "touchSupport" -> str(getTouchSupport(e))
          [] key = "hoverType" -> str(getHoverCapability(e))
          [] key = "hdrSupport" -> bool(getHDRSupport(e))
          [] key = "reducedMotion" -> bool(getReducedMotion(e))
          [] key = "pdfViewer" -> bool(getPDFViewer(e))
          [] key = "mathFingerprint" -> str(getMathFingerprint(e))
          [] key = "tzOffset" -> num(getTimezoneOffset(e))
          [] key = "platform" -> str(getPlatform(e))

\* the fields of `signals` in generateProfile, in source order
ProfileSignalKeys(version) ==
    IF version = 12
    THEN << "gpuVendor", "cpuBucket", "screenRatio", "colorDepth", "touchSupport",
            "hoverType", "hdrSupport", "reducedMotion", "pdfViewer",
            "mathFingerprint", "tzOffset", "platform" >>
    ELSE << "gpuVendor", "cpuBucket", "screenRatio", "availScreen", "colorDepth",
            "touchSupport", "hoverType", "hdrSupport", "reducedMotion", "pdfViewer",
            "tzOffset", "platform" >>

\* the fields of the object getSignals returns, in source order
ExportSignalKeys(version) ==
    IF version = 12
    THEN << "gpuVendor", "cpuBucket", "screenRatio", "colorDepth", "touchSupport",
            "hoverType", "hdrSupport", "reducedMotion", "pdfViewer",
            "mathFingerprint", "tzOffset", "platform" >>
    ELSE << "gpuVendor", "cpuBucket", "screenRatio", "colorDepth", "touchSupport",
            "hoverType", "hdrSupport", "reducedMotion", "pdfViewer",
            "tzOffset", "platform" >>

\* the composer that still joins the available-screen bucket of the
\* 11-signal set into the master string
MasterStringKeys_WithAvailScreen(version) ==
    IF version = 12
    THEN << "gpuVendor", "cpuBucket", "screenRatio", "colorDepth", "touchSupport",
            "hoverType", "hdrSupport", "reducedMotion", "pdfViewer",
            "mathFingerprint", "tzOffset", "platform" >>
    ELSE << "gpuVendor", "cpuBucket", "screenRatio", "availScreen", "colorDepth",
            "touchSupport", "hoverType", "hdrSupport", "reducedMotion", "pdfViewer",
            "tzOffset", "platform" >>

\* the composer sorting the fields by name before joining them
MasterStringKeys_Sorted(version) ==
    IF version = 12
    THEN << "colorDepth", "cpuBucket", "gpuVendor", "hdrSupport", "hoverType",
            "mathFingerprint", "pdfViewer", "platform", "reducedMotion",
            "screenRatio", "touchSupport", "tzOffset" >>
    ELSE << "colorDepth", "cpuBucket", "gpuVendor", "hdrSupport", "hoverType",
            "pdfViewer", "platform", "reducedMotion", "screenRatio",
            "touchSupport", "tzOffset" >>

\* the elements of the array joined into masterString, in source order
MasterStringKeys(version) ==
    IF version = 12
    THEN << "gpuVendor", "cpuBucket", "screenRatio", "colorDepth", "touchSupport",
            "hoverType", "hdrSupport", "reducedMotion", "pdfViewer",
            "mathFingerprint", "tzOffset", "platform" >>
    ELSE << "gpuVendor", "cpuBucket", "screenRatio", "colorDepth", "touchSupport",
            "hoverType", "hdrSupport", "reducedMotion", "pdfViewer",
            "tzOffset", "platform" >>

Range(seq) == {seq[i] : i \in 1..Len(seq)}

\* evaluating an object literal over `keys`: [thrown, v] with v the object
\* (a function from the keys to values) when no extractor raises
CollectSignals(e, keys) ==
    IF \E i \in 1..Len(keys) : Extract(e, keys[i]).thrown THEN Throws
    ELSE Returns([k \in Range(keys) |-> Extract(e, k).v])

\* the master string with a value that differs from load to load appended
MasterString_WithLoadNonce(signals, order) ==
    Join([i \in 1..Len(order) |-> ToStringJS(signals[order[i]])], Lit.SEP)
        \o Lit.SEP \o NumToString(loads)

\* [ ...fields in order... ].join("||")
MasterString(signals, order) ==
    Join([i \in 1..Len(order) |-> ToStringJS(signals[order[i]])], Lit.SEP)

\* the anchors object of generateProfile
Anchors(e, signals, version) ==
    [ gpu |-> signals["gpuVendor"].s,
      tz |-> normalize("timezone", e.timeZone),
      platform |-> signals["platform"].s,
      fontsHash |-> Lit.S_CPU \o signals["cpuBucket"].s
                    \o (IF version = 12 THEN Lit.S_SCR ELSE Lit.S_RATIO)
                    \o signals["screenRatio"].s ]

\* the block check comparing the stored item with "1" instead of "true"
IsBlacklisted_ComparesToOne(e) ==
    /\ e.storage = "ok"
    /\ e.blacklist = "1"

\* localStorage.getItem(config.blockedStorageKey) === "true", inside try/catch:
\* e.storage is "throws" or "ok", e.blacklist the stored item ("" when absent)
IsBlacklisted(e) ==
    /\ e.storage = "ok"
    /\ e.blacklist = "true"
\* a score that is lowered when the GPU vendor resolved to a vendor name
ConfidenceScore_PenalisesResolved(signals) ==
    IF signals["gpuVendor"].s \in {Lit.S_OTHER, Lit.S_ERROR, Lit.S_NO_WEBGL}
    THEN "0.95" ELSE "0.90"

\* confidence_score of the returned profile: the literal "0.95", whatever
\* the signals are
ConfidenceScore(signals) == "0.95"

\* generateProfile(): [outcome, profile] with outcome "null" (declined),
\* "rejected" (the promise rejects) or "profile"; profile is <<>> or <<p>>
generateProfile(e, version) ==
    IF IsBlacklisted(e) THEN [outcome |-> "null", profile |-> <<>>]
    ELSE
        LET collected == CollectSignals(e, ProfileSignalKeys(version))
        IN  IF collected.thrown THEN [outcome |-> "rejected", profile |-> <<>>]
            ELSE
                LET signals == collected.v
                    masterString == MasterString(signals, MasterStringKeys(version))
                    masterID == sha256(e.subtle, masterString)
                IN  [ outcome |-> "profile",
                      profile |-> << [ master_id |-> masterID,
                                       confidence_score |-> ConfidenceScore(signals),
                                       wallet_address |-> "none",
                                       meta |-> Anchors(e, signals, version) ] >> ]

(***************************************************************************)
(* The profile store (zustand).  profile and error are <<>> for null and   *)
(* <<x>> for a value.                                                      *)
(***************************************************************************)
\* create<DeviceState>(...): the initial state
InitialStore == [profile |-> <<>>, isLoading |-> TRUE, error |-> <<>>]

\* setProfile: (profile) => set({ profile, isLoading: false })
setProfile(s, profile) == [s EXCEPT !.profile = <<profile>>, !.isLoading = FALSE]

\* a setError that records the error and leaves isLoading as it is
setError_KeepsLoading(s, error) == [s EXCEPT !.error = <<error>>]

\* setError: (error) => set({ error, isLoading: false })
setError(s, error) == [s EXCEPT !.error = <<error>>, !.isLoading = FALSE]

\* setWalletAddress of src/src/store/deviceStore.ts
setWalletAddressPlain(s, address) ==
    IF s.profile /= <<>>
    THEN [s EXCEPT !.profile = << [s.profile[1] EXCEPT !.wallet_address = address] >>]
    ELSE [s EXCEPT !.profile = <<>>]

\* setWalletAddress of the store appended to src/src/App.tsx
setWalletAddressScored(s, address) ==
    IF s.profile /= <<>>
    THEN [s EXCEPT !.profile = << [s.profile[1] EXCEPT !.wallet_address = address,
                                                       !.confidence_score = "1.00"] >>]
    ELSE [s EXCEPT !.profile = <<>>]

\* the wallet attachment rebuilding the profile without its master_id
setWalletAddress_DropsMasterId(s, address) ==
    IF s.profile /= <<>>
    THEN [s EXCEPT !.profile = << [s.profile[1] EXCEPT !.wallet_address = address,
                                                       !.master_id.hex = <<>>] >>]
    ELSE [s EXCEPT !.profile = <<>>]

\* the setWalletAddress of the store in use
setWalletAddress(s, address) ==
    IF rel.store = "App.tsx" THEN setWalletAddressScored(s, address)
    ELSE setWalletAddressPlain(s, address)

(***************************************************************************)
(* Environments and releases the model starts from.                        *)
(***************************************************************************)
\* the environment of the end-to-end scenario
BaseEnv ==
    [ storage |-> "ok", blacklist |-> "",
      gl |-> "ok", glVendor |-> Sample.R_WebKit, glRenderer |-> Sample.R_WebKitWebGL,
      glDebugInfo |-> TRUE, glUnmasked |-> Sample.R_AngleNvidia,
      hardwareConcurrency |-> 4,
      screenWidth |-> 1920, screenHeight |-> 1080, availHeight |-> 1040,
      colorDepth |-> 24, maxTouchPoints |-> 0,
      matchMedia |-> "ok",
      media |-> [hover |-> TRUE, fine |-> TRUE, hdr |-> FALSE, reduce |-> FALSE],
      pdfViewerEnabled |-> "true",
      mathJoined |-> Sample.M_V8,
      platform |-> Sample.N_Win32,
      tzOffset |-> -330, timeZone |-> Lit.TZ_Asia_Kolkata,
      subtle |-> "ok", ethereum |-> TRUE ]

\* e with the fields of o replaced
With(e, o) == [k \in DOMAIN e |-> IF k \in DOMAIN o THEN o[k] ELSE e[k]]

\* a tablet-like environment without crypto.subtle
FallbackEnv ==
    With(BaseEnv,
         [ glUnmasked |-> Sample.R_AppleGPU, hardwareConcurrency |-> 16,
           screenWidth |-> 2560, screenHeight |-> 1600, colorDepth |-> 30,
           media |-> [hover |-> TRUE, fine |-> FALSE, hdr |-> TRUE, reduce |-> TRUE],
           pdfViewerEnabled |-> "false", tzOffset |-> 60, subtle |-> "absent" ])

SeedEnvs ==
    { BaseEnv, FallbackEnv, With(BaseEnv, [blacklist |-> "true"]) }

\* single departures from a seed environment
Departures ==
    { [storage |-> "throws"], [blacklist |-> "true"], [blacklist |-> "false"],
      [blacklist |-> "TRUE"], [storage |-> "throws", blacklist |-> "true"],
      [gl |-> "none"], [gl |-> "throws"], [glDebugInfo |-> FALSE],
      [glUnmasked |-> Sample.R_AppleGPU], [glUnmasked |-> Sample.R_AngleRadeon],
      [glUnmasked |-> Sample.R_IntelIris], [glUnmasked |-> Sample.R_Adreno],
      [glUnmasked |-> Sample.R_MaliG78], [glUnmasked |-> Sample.R_Llvmpipe],
      [glUnmasked |-> Sample.R_Empty],
      [hardwareConcurrency |-> 0], [hardwareConcurrency |-> 2],
      [hardwareConcurrency |-> 8], [hardwareConcurrency |-> 16],
      [screenWidth |-> 1024, screenHeight |-> 768],
      [screenWidth |-> 1400, screenHeight |-> 1000],
      [screenWidth |-> 1440, screenHeight |-> 960],
      [screenWidth |-> 1920, screenHeight |-> 1200],
      [screenWidth |-> 1800, screenHeight |-> 1000],
      [screenWidth |-> 1080, screenHeight |-> 1920],
      [screenWidth |-> 2000, screenHeight |-> 1000],
      [screenWidth |-> 2340, screenHeight |-> 1080],
      [screenWidth |-> 3440, screenHeight |-> 1440],
      [screenWidth |-> 1920, screenHeight |-> 0],
      [screenWidth |-> 0, screenHeight |-> 0],
      [availHeight |-> 500], [availHeight |-> 700], [availHeight |-> 900],
      [availHeight |-> 1300],
      [colorDepth |-> 30], [colorDepth |-> 32], [colorDepth |-> 16],
      [maxTouchPoints |-> 1], [maxTouchPoints |-> 5], [maxTouchPoints |-> 10],
      [matchMedia |-> "absent"], [matchMedia |-> "throws"],
      [media |-> [hover |-> FALSE, fine |-> FALSE, hdr |-> FALSE, reduce |-> FALSE]],
      [media |-> [hover |-> TRUE, fine |-> FALSE, hdr |-> FALSE, reduce |-> FALSE]],
      [media |-> [hover |-> TRUE, fine |-> TRUE, hdr |-> TRUE, reduce |-> FALSE]],
      [media |-> [hover |-> TRUE, fine |-> TRUE, hdr |-> FALSE, reduce |-> TRUE]],
      [pdfViewerEnabled |-> "undefined"], [pdfViewerEnabled |-> "false"],
      [mathJoined |-> Sample.M_Gecko],
      [platform |-> Sample.N_MacIntel], [platform |-> Sample.N_LinuxX86],
      [platform |-> Sample.N_iPhone], [platform |-> Sample.N_Android],
      [platform |-> Sample.N_LinuxArmAndroid], [platform |-> Sample.N_FreeBSD],
      [platform |-> <<>>],
      [tzOffset |-> 0], [tzOffset |-> 300], [tzOffset |-> -60],
      [timeZone |-> Lit.TZ_Europe_Berlin], [timeZone |-> Lit.TZ_Europe_Kyiv],
      [timeZone |-> <<>>],
      [subtle |-> "absent"], [subtle |-> "throws"], [subtle |-> "rejects"],
      [ethereum |-> FALSE] }

Envs == SeedEnvs \cup {With(s, d) : s \in SeedEnvs, d \in Departures}

\* the versions of the sources that can be deployed together: the 12- or
\* 11-signal deviceHash.ts, either store, either comparator component
Releases ==
    [ hash : {12, 11}, store : {"deviceStore.ts", "App.tsx"}, ui : {"part_001", "part_002"} ]

\* account lists the wallet provider may deliver
AccountLists == { <<>>, <<"0xA1">>, <<"0xB2">>, <<"0xB2", "0xA1">> }

(***************************************************************************)
(* JSON as the comparator uses it.  A text is [syntax, top, members]:      *)
(* syntax "json" or "invalid"; top "object" or "null"; members the         *)
(* key/value pairs of an object in order, each value a token [kind, text]. *)
(***************************************************************************)
\* the token JSON.stringify writes for a string, number or boolean
JSONToken(v) ==
    IF v.t = "string" THEN [kind |-> "string", text |-> v.s]
    ELSE IF v.t = "number" THEN [kind |-> "number", text |-> NumToString(v.n)]
    ELSE [kind |-> "literal", text |-> BoolToString(v.b)]

\* JSON.stringify(obj, null, 2) for an object of primitives with keys `keys`
JSONStringify(obj, keys) ==
    [ syntax |-> "json", top |-> "object",
      members |-> [i \in 1..Len(keys) |-> [key |-> keys[i], tok |-> JSONToken(obj[keys[i]])]] ]

RECURSIVE DigitsValue(_, _)
\* the number a run of decimal digits denotes, acc being the value so far
DigitsValue(digits, acc) ==
    IF digits = <<>> THEN acc
    ELSE DigitsValue(Tail(digits), 10 * acc + (Head(digits) - 48))

\* the value JSON.parse gives a token
JSONValue(tok) ==
    IF tok.kind = "string" THEN JStr(tok.text)
    ELSE IF tok.kind = "number" THEN
        IF Head(tok.text) = 45 THEN JNum(0 - DigitsValue(Tail(tok.text), 0))
        ELSE JNum(DigitsValue(tok.text, 0))
    ELSE IF tok.text = Lit.S_true THEN JBool(TRUE)
    ELSE IF tok.text = Lit.S_false THEN JBool(FALSE)
    ELSE JNull

\* JSON.parse(text): raises on invalid text; the value is <<>> for null and
\* <<object>> for an object, a function from its keys to values
JSONParse(text) ==
    IF text.syntax = "invalid" THEN Throws
    ELSE IF text.top = "null" THEN Returns(<<>>)
    ELSE Returns(<< [k \in {text.members[i].key : i \in 1..Len(text.members)} |->
                        JSONValue((CHOOSE m \in Range(text.members) : m.key = k).tok)] >>)

InvalidText == [syntax |-> "invalid", top |-> "null", members |-> <<>>]
NullText == [syntax |-> "json", top |-> "null", members |-> <<>>]
EmptyObjectText == [syntax |-> "json", top |-> "object", members |-> <<>>]

(***************************************************************************)
(* The comparator of the UserIdentity component.                           *)
(***************************************************************************)
\* compareData?.key, and compareData[key] when compareData is not null
Field(compareData, key) ==
    IF compareData /= <<>> /\ key \in DOMAIN compareData[1] THEN compareData[1][key]
    ELSE JUndefined

\* the status cell of a row
RowStatus(hasCompare, isMatch) ==
    IF hasCompare THEN (IF isMatch THEN "MATCH" ELSE "DIFF") ELSE ""

\* the array `metrics` of part_002: [label, current, compare] per row
Metrics(signals, compareData) ==
    LET plain(label, key) ==
            [label |-> label, current |-> signals[key], compare |-> Field(compareData, key)]
        orEmpty(label, key) ==
            [ label |-> label, current |-> JStr(ToStringJS(signals[key])),
              compare |-> JStr(ToStringJS(IF Truthy(Field(compareData, key))
                                          THEN Field(compareData, key) ELSE JStr(<<>>))) ]
        nullishEmpty(label, key) ==
            [ label |-> label, current |-> JStr(ToStringJS(signals[key])),
              compare |-> JStr(ToStringJS(IF Nullish(Field(compareData, key))
                                          THEN JStr(<<>>) ELSE Field(compareData, key))) ]
    IN  << plain("GPU Vendor", "gpuVendor"),
           plain("CPU Bucket", "cpuBucket"),
           plain("Screen Ratio", "screenRatio"),
           orEmpty("Color Depth", "colorDepth"),
           plain("Touch Support", "touchSupport"),
           plain("Hover Type", "hoverType"),
           nullishEmpty("HDR Support", "hdrSupport"),
           nullishEmpty("Reduced Motion", "reducedMotion"),
           nullishEmpty("PDF Viewer", "pdfViewer"),
           orEmpty("Timezone Offset", "tzOffset"),
           plain("Platform", "platform") >>

\* the status column of the metrics table of part_002
MetricsStatuses(signals, compareData) ==
    LET metrics == Metrics(signals, compareData)
        hasCompare == compareData /= <<>>
    IN  [i \in 1..Len(metrics) |->
            RowStatus(hasCompare, ~hasCompare \/ metrics[i].current = metrics[i].compare)]

\* the status column of the signal table of part_001, over the entries of
\* profile.fingerprint
ItemStatuses(fingerprint, keys, compareData) ==
    LET hasCompare == compareData /= <<>>
        valStr(key) == ToStringJS(fingerprint[key])
        compareVal(key) == IF hasCompare THEN Field(compareData, key) ELSE JUndefined
        compareStr(key) ==
            IF hasCompare
            THEN IF compareVal(key).t = "null" THEN Lit.S_null
                 ELSE ToStringJS(IF Nullish(compareVal(key)) THEN JStr(Lit.S_dash)
                                 ELSE compareVal(key))
            ELSE Lit.S_dash
    IN  [i \in 1..Len(keys) |->
            RowStatus(hasCompare, ~hasCompare \/ valStr(keys[i]) = compareStr(keys[i]))]

\* profile.fingerprint: the object the fingerprint script returns, which
\* the specification describes as the signal set
ScriptFingerprint(e, version) == CollectSignals(e, ExportSignalKeys(version))

(***************************************************************************)
(* Calls of the library functions on their own: the arguments a call may   *)
(* be made with.                                                           *)
(***************************************************************************)
\* raw timezone names, the empty one included
TimezoneInputs ==
    { <<>>,   \* ""
      <<65, 115, 105, 97, 47, 75, 111, 108, 107, 97, 116, 97>>,   \* "Asia/Kolkata"
      <<65, 115, 105, 97, 47, 75, 97, 116, 104, 109, 97, 110, 100, 117>>,   \* "Asia/Kathmandu"
      <<65, 109, 101, 114, 105, 99, 97, 47, 77, 111, 110, 116, 114, 101, 97, 108>>,   \* "America/Montreal"
      <<69, 117, 114, 111, 112, 101, 47, 75, 121, 105, 118>>,   \* "Europe/Kyiv"
      <<65, 115, 105, 97, 47, 67, 97, 108, 99, 117, 116, 116, 97>>,   \* "Asia/Calcutta"
      <<65, 115, 105, 97, 47, 75, 97, 116, 109, 97, 110, 100, 117>>,   \* "Asia/Katmandu"
      <<65, 109, 101, 114, 105, 99, 97, 47, 84, 111, 114, 111, 110, 116, 111>>,   \* "America/Toronto"
      <<69, 117, 114, 111, 112, 101, 47, 75, 105, 101, 118>>,   \* "Europe/Kiev"
      <<69, 117, 114, 111, 112, 101, 47, 66, 101, 114, 108, 105, 110>>,   \* "Europe/Berlin"
      <<85, 84, 67>>,   \* "UTC"
      <<97, 115, 105, 97, 47, 107, 111, 108, 107, 97, 116, 97>>,   \* "asia/kolkata"
      <<65, 115, 105, 97, 47, 75, 111, 108, 107, 97, 116, 97, 32>> }   \* "Asia/Kolkata "
    \cup ObjectPrototypeKeys

\* raw navigator.platform strings
PlatformInputs ==
    { <<87, 105, 110, 51, 50>>,   \* "Win32"
      <<87, 105, 110, 100, 111, 119, 115, 32, 78, 84, 32, 49, 48, 46, 48>>,   \* "Windows NT 10.0"
      <<77, 97, 99, 73, 110, 116, 101, 108>>,   \* "MacIntel"
      <<77, 97, 99, 105, 110, 116, 111, 115, 104>>,   \* "Macintosh"
      <<76, 105, 110, 117, 120, 32, 120, 56, 54, 95, 54, 52>>,   \* "Linux x86_64"
      <<76, 105, 110, 117, 120, 32, 97, 114, 109, 118, 56, 108>>,   \* "Linux armv8l"
      <<105, 80, 104, 111, 110, 101>>,   \* "iPhone"
      <<105, 80, 97, 100>>,   \* "iPad"
      <<105, 80, 111, 100>>,   \* "iPod"
      <<65, 110, 100, 114, 111, 105, 100>>,   \* "Android"
      <<70, 114, 101, 101, 66, 83, 68>>,   \* "FreeBSD"
      <<70, 114, 101, 101, 66, 83, 68, 32, 97, 109, 100, 54, 52>>,   \* "FreeBSD amd64"
      <<119, 105, 110, 51, 50>>,   \* "win32"
      <<32, 87, 105, 110, 51, 50>>,   \* " Win32"
      <<76, 105, 110, 117, 120, 59, 32, 65, 110, 100, 114, 111, 105, 100, 32, 49, 48>>,   \* "Linux; Android 10"
      <<77, 97, 99, 73, 110, 116, 101, 108, 32, 105, 80, 97, 100>>,   \* "MacIntel iPad"
      <<88, 49, 49, 59, 32, 65, 110, 100, 114, 111, 105, 100, 32, 49, 48>>,   \* "X11; Android 10"
      <<80, 105, 107, 101, 32, 118, 55, 46, 54, 32, 114, 101, 108, 101, 97, 115, 101, 32, 57, 50>>,   \* "Pike v7.6 release 92"
      <<85, 78, 75, 78, 79, 87, 78>>,   \* "UNKNOWN"
      <<79, 84, 72, 69, 82>> }   \* "OTHER"

\* the categories normalize is called with, and one it has no branch for
NormalizeTypes == {"timezone", "platform", "language"}

NormalizeCalls ==
    { [fn |-> "normalize", state |-> "pending", arg |-> [type |-> t, data |-> d], out |-> <<>>] :
        t \in NormalizeTypes, d \in TimezoneInputs \cup PlatformInputs }

\* values of gl.getParameter(gl.VENDOR)
GLVendors ==
    { <<87, 101, 98, 75, 105, 116>>,   \* "WebKit"
      <<73, 110, 116, 101, 108, 32, 73, 110, 99, 46>>,   \* "Intel Inc."
      <<65, 82, 77>> }   \* "ARM"

\* values of gl.getParameter(gl.RENDERER); "" also stands for null
GLRenderers ==
    { <<87, 101, 98, 75, 105, 116, 32, 87, 101, 98, 71, 76>>,   \* "WebKit WebGL"
      <<73, 110, 116, 101, 108, 32, 73, 114, 105, 115, 32, 79, 112, 101, 110, 71, 76, 32, 69, 110, 103, 105, 110, 101>>,   \* "Intel Iris OpenGL Engine"
      <<>> }   \* ""

\* values of gl.getParameter(debugInfo.UNMASKED_RENDERER_WEBGL)
GLUnmasked ==
    { Sample.R_AngleNvidia, Sample.R_AppleGPU, Sample.R_AngleRadeon, Sample.R_IntelIris,
      Sample.R_Adreno, Sample.R_MaliG78, Sample.R_Llvmpipe, Sample.R_Empty }

\* the WebGL part of an environment
GLInputs ==
    { [gl |-> "ok", glVendor |-> v, glRenderer |-> r, glDebugInfo |-> d, glUnmasked |-> u] :
        v \in GLVendors, r \in GLRenderers, d \in BOOLEAN, u \in GLUnmasked }
    \cup { [gl |-> g, glVendor |-> <<>>, glRenderer |-> <<>>, glDebugInfo |-> FALSE,
            glUnmasked |-> <<>>] : g \in {"none", "throws"} }

GPUVendorCalls ==
    { [fn |-> "getGPUVendor", state |-> "pending", arg |-> g, out |-> <<>>] : g \in GLInputs }

\* messages to digest
ShortMessages ==
    { <<>>,   \* ""
      <<97>>,   \* "a"
      <<97, 98, 99>>,   \* "abc"
      <<104, 101, 108, 108, 111>>,   \* "hello"
      <<112, 111, 108, 121, 103, 101, 110, 101, 108, 117, 98, 114, 105, 99, 97, 110, 116, 115>>,   \* "polygenelubricants"
      <<71, 68, 80, 82>>,   \* "GDPR"
      <<68, 69, 83, 73, 71, 78, 73, 78, 71, 32, 87, 79, 82, 75, 72, 79, 85, 83, 69, 83>>,   \* "DESIGNING WORKHOUSES"
      <<124, 124>>,   \* "||"
      <<102, 105, 110, 103, 101, 114, 112, 114, 105, 110, 116>>,   \* "fingerprint"
      <<255, 256, 65535, 55357, 56832>> }   \* code units above 127, a surrogate pair

\* messages to digest: short ones and master strings of the pipeline
Messages ==
    ShortMessages
    \cup { MasterString(CollectSignals(e, ProfileSignalKeys(v)).v, MasterStringKeys(v)) :
             e \in {BaseEnv, FallbackEnv}, v \in {11, 12} }

\* crypto.subtle: working, absent, throwing when called, or returning a
\* promise that rejects
SubtleStates == {"ok", "absent", "throws", "rejects"}

Sha256Calls ==
    { [fn |-> "sha256", state |-> "pending", arg |-> [subtle |-> c, message |-> m], out |-> <<>>] :
        c \in SubtleStates, m \in Messages }

(***************************************************************************)
(* The speech-synthesis voice fingerprint.  A voice is [lang, isString]:   *)
(* lang its language tag, isString FALSE when the voice object has no      *)
(* string under lang (v.lang.split then raises).                           *)
(***************************************************************************)
\* a voice with the language tag lang
Voice(lang) == [lang |-> lang, isString |-> TRUE]

\* a voice object without a lang string
VoiceWithoutLang == [lang |-> <<>>, isString |-> FALSE]

RECURSIVE LangPrefix(_)
\* lang.split('-')[0]: the characters before the first '-'
LangPrefix(lang) ==
    IF lang = <<>> \/ Head(lang) = 45 THEN <<>>
    ELSE <<Head(lang)>> \o LangPrefix(Tail(lang))

\* the keys of langCounts in insertion order: the prefixes in the order of
\* their first occurrence (language prefixes are not array indices)
LangKeys(prefixes) ==
    LET firsts == {i \in DOMAIN prefixes : \A j \in 1..(i - 1) : prefixes[j] /= prefixes[i]}
        nth(r) == CHOOSE i \in firsts : Cardinality({j \in firsts : j < i}) = r - 1
    IN  [r \in 1..Cardinality(firsts) |-> prefixes[nth(r)]]

\* Object.entries(langCounts).sort((a, b) => b[1] - a[1]): the entries by
\* descending count, entries of equal count in insertion order
SortedLangCounts(prefixes) ==
    LET keys == LangKeys(prefixes)
        count(k) == Cardinality({i \in DOMAIN prefixes : prefixes[i] = k})
        rank(i) == 1 + Cardinality({j \in DOMAIN keys :
                                       \/ count(keys[j]) > count(keys[i])
                                       \/ count(keys[j]) = count(keys[i]) /\ j < i})
    IN  [r \in DOMAIN keys |->
            LET i == CHOOSE i \in DOMAIN keys : rank(i) = r
            IN  [lang |-> keys[i], count |-> count(keys[i])]]

\* buildVoicesFingerprint(voices): `V${voices.length}_${sorted}` with the
\* three most frequent language prefixes as lang:count joined by '-'
buildVoicesFingerprint(voices) ==
    IF \E i \in DOMAIN voices : ~voices[i].isString THEN Throws
    ELSE
        LET entries == SortedLangCounts([i \in DOMAIN voices |-> LangPrefix(voices[i].lang)])
            top == [r \in 1..(IF Len(entries) < 3 THEN Len(entries) ELSE 3) |-> entries[r]]
            parts == [r \in DOMAIN top |-> top[r].lang \o <<58>> \o NumToString(top[r].count)]
        IN  Returns(<<86>> \o NumToString(Len(voices)) \o <<95>> \o Join(parts, <<45>>))

\* the strings getVoicesFingerprint resolves with when it has no fingerprint
SpeechLit ==
    [ S_NO_VOICES |-> <<78, 79, 95, 86, 79, 73, 67, 69, 83>>,   \* "NO_VOICES"
      S_NO_API |-> <<78, 79, 95, 65, 80, 73>> ]   \* "NO_API"

\* the voice lists speechSynthesis.getVoices() may return: none yet, the
\* local voices, the local and the remote voices, and a list in which a
\* voice has no lang string
VoiceList(name) ==
    CASE name = "none" -> <<>>
      [] name = "local" ->
           << Voice(<<101, 110, 45, 85, 83>>),   \* en-US
              Voice(<<101, 110, 45, 71, 66>>),   \* en-GB
              Voice(<<100, 101, 45, 68, 69>>) >>   \* de-DE
      [] name = "all" ->
           << Voice(<<101, 110, 45, 85, 83>>),   \* en-US
              Voice(<<101, 110, 45, 71, 66>>),   \* en-GB
              Voice(<<100, 101, 45, 68, 69>>),   \* de-DE
              Voice(<<101, 115, 45, 69, 83>>),   \* es-ES
              Voice(<<101, 115, 45, 77, 88>>),   \* es-MX
              Voice(<<101, 115, 45, 65, 82>>),   \* es-AR
              Voice(<<102, 114, 45, 70, 82>>) >>   \* fr-FR
      [] name = "malformed" ->
           << Voice(<<101, 110, 45, 85, 83>>),   \* en-US
              VoiceWithoutLang >>   \* (no lang)

VoiceListNames == {"none", "local", "all", "malformed"}

\* buildVoicesFingerprint of each voice list, computed once
BuiltFingerprint ==
    [name \in VoiceListNames |-> buildVoicesFingerprint(VoiceList(name))]

\* window.speechSynthesis: present, absent, or present with a getVoices
\* that throws
SpeechApis == {"present", "absent", "throws"}

(***************************************************************************)
(* App: the init effect, and the wallet listener it starts.                *)
(***************************************************************************)
NoResult == [outcome |-> "none", profile |-> <<>>]

\* no library call is probed while App runs
NoProbe == [fn |-> "none", state |-> "idle"]

\* App never calls getVoicesFingerprint
NoSpeech == [api |-> "unused"]

IdleWallet == [request |-> "idle", listening |-> FALSE, delivered |-> 0]

FreshUI ==
    [ signals |-> <<>>, crashed |-> FALSE,
      compareInput |-> "empty", compareData |-> <<>>, compareError |-> "",
      pasted |-> "none" ]

Init ==
    /\ env \in Envs
    /\ rel \in Releases
    /\ store = InitialStore
    /\ pc = "mount"
    /\ result = NoResult
    /\ wallet = IdleWallet
    /\ ui = FreshUI
    /\ loads = 1
    /\ runs = <<>>
    /\ probe = NoProbe
    /\ speech = NoSpeech

\* initWalletListener(): with window.ethereum, the eth_accounts request is
\* sent and the accountsChanged callback is registered
initWalletListener(e) ==
    IF e.ethereum
    THEN [request |-> "pending", listening |-> TRUE, delivered |-> 0]
    ELSE IdleWallet

\* useEffect(() => { setSignals(getSignals()); }, []) of part_002: an
\* exception in the effect takes the component tree down
getSignalsEffect(e, version) ==
    LET got == CollectSignals(e, ExportSignalKeys(version))
    IN  IF got.thrown THEN [signals |-> <<>>, crashed |-> TRUE]
        ELSE [signals |-> <<got.v>>, crashed |-> FALSE]

\* The effects of the first render.  In part_002 UserIdentity's effect
\* stores getSignals().  App's effect calls init(), which calls
\* generateProfile(); init is suspended at its await until the promise
\* settles.
Mount ==
    /\ pc = "mount"
    /\ LET r == generateProfile(env, rel.hash)
       IN  /\ result' = r
           /\ runs' = Append(runs, r)
    /\ ui' = IF rel.ui = "part_002" THEN [ui EXCEPT !.signals = getSignalsEffect(env, rel.hash).signals,
                                                   !.crashed = getSignalsEffect(env, rel.hash).crashed]
             ELSE ui
    /\ pc' = "awaiting"
    /\ UNCHANGED <<probe, speech, env, rel, store, wallet, loads>>

\* init resumes with the settled promise: lines 14-27 of App.tsx
InitResume ==
    /\ pc = "awaiting"
    /\ pc' = "done"
    /\ result' = NoResult
    /\ IF result.outcome = "profile"
         THEN /\ store' = setProfile(store, result.profile[1])
              /\ wallet' = initWalletListener(env)
       ELSE IF result.outcome = "null"
         THEN /\ store' = setError(store, "User is blacklisted")
              /\ UNCHANGED wallet
       ELSE /\ store' = setError(store, "Failed to generate profile")
            /\ UNCHANGED wallet
    /\ UNCHANGED <<probe, speech, env, rel, ui, loads, runs>>

\* the .then callback of the eth_accounts request
EthAccountsResolve(accounts) ==
    /\ wallet.request = "pending"
    /\ wallet' = [wallet EXCEPT !.request = "settled"]
    /\ store' = IF Len(accounts) > 0 THEN setWalletAddress(store, accounts[1]) ELSE store
    /\ UNCHANGED <<probe, speech, env, rel, pc, result, ui, loads, runs>>

\* the request rejects: .catch(() => { })
EthAccountsReject ==
    /\ wallet.request = "pending"
    /\ wallet' = [wallet EXCEPT !.request = "settled"]
    /\ UNCHANGED <<probe, speech, env, rel, store, pc, result, ui, loads, runs>>

\* the accountsChanged callback
AccountsChanged(accounts) ==
    /\ wallet.listening
    /\ wallet.delivered < MaxWalletEvents
    /\ wallet' = [wallet EXCEPT !.delivered = @ + 1]
    /\ store' = IF Len(accounts) > 0 THEN setWalletAddress(store, accounts[1]) ELSE store
    /\ UNCHANGED <<probe, speech, env, rel, pc, result, ui, loads, runs>>

\* handleRecalculate: window.location.reload() starts a new page load, in
\* which the module state, the store and the component state are created anew
Recalculate ==
    /\ pc = "done"
    /\ ~store.isLoading
    /\ store.profile /= <<>>
    /\ loads < MaxLoads
    /\ loads' = loads + 1
    /\ store' = InitialStore
    /\ pc' = "mount"
    /\ result' = NoResult
    /\ wallet' = IdleWallet
    /\ ui' = FreshUI
    /\ UNCHANGED <<probe, speech, env, rel, runs>>

Next ==
    \/ Mount
    \/ InitResume
    \/ \E accounts \in AccountLists : EthAccountsResolve(accounts)
    \/ EthAccountsReject
    \/ \E accounts \in AccountLists : AccountsChanged(accounts)
    \/ Recalculate

Spec == Init /\ [][Next]_vars

\* the steps of Next that move init on: Mount is the only step from
\* "mount" to "awaiting", InitResume the only one from "awaiting" to "done"
MountStep == pc = "mount" /\ pc' = "awaiting"
ResumeStep == pc = "awaiting" /\ pc' = "done"

\* The same, with the scheduling the runtime gives: the effects of a
\* mounted component run, and the continuation of init runs once the
\* promise of generateProfile has settled
SpecLive == Spec /\ WF_pc(MountStep) /\ WF_pc(ResumeStep)

(***************************************************************************)
(* UserIdentity: what is rendered, and the comparator's handlers.          *)
(***************************************************************************)
\* the component renders its tables: not loading, a profile stored, and in
\* part_002 the signals set
Rendered ==
    /\ ~ui.crashed
    /\ ~store.isLoading
    /\ store.profile /= <<>>
    /\ rel.ui = "part_002" => ui.signals /= <<>>

\* the status column as rendered
Statuses ==
    IF rel.ui = "part_002"
    THEN MetricsStatuses(ui.signals[1], ui.compareData)
    ELSE ItemStatuses(ScriptFingerprint(env, rel.hash).v, ExportSignalKeys(rel.hash),
                      ui.compareData)

\* the JSON the page shows under "Raw JSON Output" and copies on handleCopy
RawOutput ==
    IF rel.ui = "part_002"
    THEN JSONStringify(ui.signals[1], ExportSignalKeys(rel.hash))
    ELSE JSONStringify(ScriptFingerprint(env, rel.hash).v, ExportSignalKeys(rel.hash))

\* the raw output of a second device, which differs from this one in its
\* timezone offset and core count
OtherDevice ==
    With(env, [tzOffset |-> env.tzOffset + 60,
               hardwareConcurrency |-> env.hardwareConcurrency + 8])

\* the texts a user may put into the comparator's textarea
PastedText(source) ==
    CASE source = "own" -> RawOutput
      [] source = "other" ->
            JSONStringify(CollectSignals(OtherDevice, ExportSignalKeys(rel.hash)).v,
                          ExportSignalKeys(rel.hash))
      [] source = "emptyObject" -> EmptyObjectText
      [] source = "null" -> NullText
      [] source = "garbage" -> InvalidText
      [] source = "empty" -> InvalidText

Sources == {"own", "other", "emptyObject", "null", "garbage"}

\* onChange of the textarea: setCompareInput(e.target.value)
SetCompareInput(source) ==
    /\ Rendered
    /\ ui.compareInput /= source
    /\ ui' = [ui EXCEPT !.compareInput = source]
    /\ UNCHANGED <<probe, speech, env, rel, store, pc, result, wallet, loads, runs>>

\* handleCompare whose catch branch sets the error but keeps the imported set
HandleCompare_KeepsData ==
    /\ Rendered
    /\ LET parsed == JSONParse(PastedText(ui.compareInput))
       IN  IF parsed.thrown
           THEN ui' = [ui EXCEPT !.compareError = "Invalid JSON",
                                 !.pasted = ui.compareInput]
           ELSE ui' = [ui EXCEPT !.compareData = parsed.v, !.compareError = "",
                                 !.pasted = ui.compareInput]
    /\ UNCHANGED <<probe, speech, env, rel, store, pc, result, wallet, loads, runs>>

\* handleCompare
HandleCompare ==
    /\ Rendered
    /\ LET parsed == JSONParse(PastedText(ui.compareInput))
       IN  IF parsed.thrown
           THEN ui' = [ui EXCEPT !.compareError = "Invalid JSON", !.compareData = <<>>,
                                 !.pasted = ui.compareInput]
           ELSE ui' = [ui EXCEPT !.compareData = parsed.v, !.compareError = "",
                                 !.pasted = ui.compareInput]
    /\ UNCHANGED <<probe, speech, env, rel, store, pc, result, wallet, loads, runs>>

NextUI ==
    \/ Mount
    \/ InitResume
    \/ \E source \in Sources : SetCompareInput(source)
    \/ HandleCompare
    \/ Recalculate

SpecUI == Init /\ [][NextUI]_vars

(***************************************************************************)
(* One library call on its own: the call is made with arguments of the     *)
(* sets above and returns.                                                 *)
(***************************************************************************)
InitProbe ==
    /\ env = BaseEnv
    /\ rel = [hash |-> 12, store |-> "deviceStore.ts", ui |-> "part_002"]
    /\ store = InitialStore
    /\ pc = "mount"
    /\ result = NoResult
    /\ wallet = IdleWallet
    /\ ui = FreshUI
    /\ loads = 1
    /\ runs = <<>>
    /\ speech = NoSpeech
    /\ probe \in NormalizeCalls \cup GPUVendorCalls \cup Sha256Calls

\* normalize(type, data) runs
CallNormalize ==
    /\ probe.fn = "normalize" /\ probe.state = "pending"
    /\ probe' = [probe EXCEPT !.state = "returned",
                              !.out = normalize(probe.arg.type, probe.arg.data)]
    /\ UNCHANGED <<env, rel, store, pc, result, wallet, ui, loads, runs, speech>>

\* getGPUVendor() runs
CallGetGPUVendor ==
    /\ probe.fn = "getGPUVendor" /\ probe.state = "pending"
    /\ probe' = [probe EXCEPT !.state = "returned", !.out = getGPUVendor(probe.arg)]
    /\ UNCHANGED <<env, rel, store, pc, result, wallet, ui, loads, runs, speech>>

\* sha256(message) runs until its promise settles
CallSha256 ==
    /\ probe.fn = "sha256" /\ probe.state = "pending"
    /\ probe' = [probe EXCEPT !.state = "returned",
                              !.out = sha256(probe.arg.subtle, probe.arg.message)]
    /\ UNCHANGED <<env, rel, store, pc, result, wallet, ui, loads, runs, speech>>

NextProbe ==
    \/ CallNormalize
    \/ CallGetGPUVendor
    \/ CallSha256

SpecProbe == InitProbe /\ [][NextProbe]_vars

(***************************************************************************)
(* getVoicesFingerprint.  speech is [api, list, cache, handler, calls,     *)
(* events]: the state of window.speechSynthesis, the name of the list      *)
(* getVoices() returns now, cachedVoicesFingerprint (<<>> for null), the   *)
(* call whose closure is assigned to onvoiceschanged (0: none), the calls  *)
(* made so far and the number of voiceschanged notifications.  A call is   *)
(* [waited, timer, state, value, by, cached]: whether it subscribed, its   *)
(* 500ms timer, its promise, what resolved it, and the cache it found.     *)
(***************************************************************************)
\* resolve(value): settles a pending promise, and does nothing to a settled one
ResolveCall(c, value, by) ==
    IF c.state = "pending" THEN [c EXCEPT !.state = "resolved", !.value = value, !.by = by]
    ELSE c

\* clearTimeout(timeout)
ClearTimer(c) ==
    IF c.timer = "armed" THEN [c EXCEPT !.timer = "cleared"] ELSE c

\* processVoices(voices) of call k, voices being the list `name`:
\* [sp, returned] with returned "false", "true", or "thrown" when
\* buildVoicesFingerprint raises after the timer has been cleared
processVoices(sp, k, name, by) ==
    IF Len(VoiceList(name)) = 0 THEN [sp |-> sp, returned |-> "false"]
    ELSE
        LET cleared == [sp EXCEPT !.calls[k] = ClearTimer(@)]
            built == BuiltFingerprint[name]
        IN  IF built.thrown THEN [sp |-> cleared, returned |-> "thrown"]
            ELSE [ sp |-> [cleared EXCEPT !.cache = <<built.v>>,
                                          !.calls[k] = ResolveCall(@, built.v, by)],
                   returned |-> "true" ]

\* a promise that has just been created, with its timer set
NewCall(cache) ==
    [ waited |-> FALSE, timer |-> "armed", state |-> "pending", value |-> <<>>,
      by |-> "", cached |-> cache ]

InitVoices ==
    /\ env = BaseEnv
    /\ rel = [hash |-> 11, store |-> "deviceStore.ts", ui |-> "part_002"]
    /\ store = InitialStore
    /\ pc = "mount"
    /\ result = NoResult
    /\ wallet = IdleWallet
    /\ ui = FreshUI
    /\ loads = 1
    /\ runs = <<>>
    /\ probe = NoProbe
    /\ \E api \in SpeechApis, list \in VoiceListNames :
          /\ api /= "present" => list = "none"
          /\ speech = [ api |-> api, list |-> list, cache |-> <<>>, handler |-> 0,
                        calls |-> <<>>, events |-> 0 ]

\* getVoicesFingerprint(): the call up to the return of the promise
GetVoicesFingerprint ==
    /\ speech.api /= "unused"
    /\ Len(speech.calls) < MaxVoiceCalls
    /\ LET k == Len(speech.calls) + 1
           made == [speech EXCEPT !.calls = Append(@, NewCall(speech.cache))]
           caught == [made EXCEPT !.calls[k] = ResolveCall(ClearTimer(@), Lit.S_ERROR, "error")]
       IN  IF speech.cache /= <<>>
           THEN speech' = [speech EXCEPT !.calls = Append(@,
                              [NewCall(speech.cache) EXCEPT !.timer = "none", !.state = "resolved",
                                                            !.value = speech.cache[1],
                                                            !.by = "cache"])]
           ELSE IF speech.api = "absent"
           THEN speech' = [made EXCEPT !.calls[k] =
                              ResolveCall(ClearTimer(@), SpeechLit.S_NO_API, "noapi")]
           ELSE IF speech.api = "throws"
           THEN speech' = caught
           ELSE LET tried == processVoices(made, k, speech.list, "immediate")
                IN  IF tried.returned = "true" THEN speech' = tried.sp
                    ELSE IF tried.returned = "thrown"
                    THEN speech' = [tried.sp EXCEPT !.calls[k] =
                                       ResolveCall(ClearTimer(@), Lit.S_ERROR, "error")]
                    ELSE speech' = [made EXCEPT !.handler = k, !.calls[k].waited = TRUE]
    /\ UNCHANGED <<env, rel, store, pc, result, wallet, ui, loads, runs, probe>>

\* the setTimeout callback of call k, 500ms after the call
VoicesTimeout(k) ==
    /\ speech.api /= "unused"
    /\ k \in DOMAIN speech.calls
    /\ speech.calls[k].timer = "armed"
    /\ LET fired == [speech EXCEPT !.calls[k].timer = "fired"]
           name == IF speech.api = "present" THEN speech.list ELSE "none"
           built == BuiltFingerprint[name]
       IN  IF Len(VoiceList(name)) > 0
           THEN IF built.thrown THEN speech' = fired
                ELSE speech' = [fired EXCEPT !.cache = <<built.v>>,
                                             !.calls[k] = ResolveCall(@, built.v, "timeout")]
           ELSE speech' = [fired EXCEPT !.calls[k] =
                              ResolveCall(@, SpeechLit.S_NO_VOICES, "timeout")]
    /\ UNCHANGED <<env, rel, store, pc, result, wallet, ui, loads, runs, probe>>

\* the browser changes the voice list to `name` and fires voiceschanged:
\* the closure assigned to onvoiceschanged, if any, runs
\* processVoices(speechSynthesis.getVoices())
OnVoicesChanged(name) ==
    /\ speech.api = "present"
    /\ speech.events < MaxVoiceEvents
    /\ LET changed == [speech EXCEPT !.list = name, !.events = @ + 1]
       IN  IF speech.handler = 0 THEN speech' = changed
           ELSE speech' = processVoices(changed, speech.handler, name, "notification").sp
    /\ UNCHANGED <<env, rel, store, pc, result, wallet, ui, loads, runs, probe>>

NextVoices ==
    \/ GetVoicesFingerprint
    \/ \E k \in 1..MaxVoiceCalls : VoicesTimeout(k)
    \/ \E name \in VoiceListNames : OnVoicesChanged(name)

\* timers that are set fire
SpecVoices ==
    /\ InitVoices
    /\ [][NextVoices]_vars
    /\ \A k \in 1..MaxVoiceCalls : WF_vars(VoicesTimeout(k))

(***************************************************************************)
(* Two page loads side by side: the page is loaded in env and in an        *)
(* environment that differs from env only in values the master string      *)
(* does not contain, and in each the wallet provider answers the           *)
(* eth_accounts request with its own account list.                         *)
(***************************************************************************)
\* departures in Intl's time-zone name and in screen.availHeight
DisplayOnlyDepartures ==
    { [timeZone |-> Lit.TZ_Europe_Berlin], [timeZone |-> Lit.TZ_Asia_Calcutta],
      [timeZone |-> <<>>],
      [availHeight |-> 500], [availHeight |-> 900], [availHeight |-> 1300],
      [timeZone |-> Lit.TZ_Europe_Kiev, availHeight |-> 700],
      [timeZone |-> Lit.TZ_America_Toronto, availHeight |-> 1100] }

\* the account lists answered in the first and in the second environment
AccountListPairs ==
    { << <<>>, <<"0xA1">> >>, << <<"0xA1">>, <<"0xB2", "0xA1">> >>,
      << <<"0xB2">>, <<"0xB2">> >> }

\* the store after init() has run in e and the eth_accounts request it
\* started has been answered with `accounts`
PageLoad(e, accounts) ==
    LET r == generateProfile(e, rel.hash)
        stored == IF r.outcome = "profile" THEN setProfile(InitialStore, r.profile[1])
                  ELSE IF r.outcome = "null" THEN setError(InitialStore, "User is blacklisted")
                  ELSE setError(InitialStore, "Failed to generate profile")
    IN  IF r.outcome = "profile" /\ initWalletListener(e).request = "pending"
           /\ Len(accounts) > 0
        THEN setWalletAddress(stored, accounts[1])
        ELSE stored

PairCalls ==
    { [fn |-> "generateProfile", state |-> "pending",
       arg |-> [departure |-> d, accounts |-> a], out |-> <<>>] :
        d \in DisplayOnlyDepartures, a \in AccountListPairs }

InitPair ==
    /\ env \in Envs
    /\ rel \in {r \in Releases : r.ui = "part_002"}
    /\ store = InitialStore
    /\ pc = "mount"
    /\ result = NoResult
    /\ wallet = IdleWallet
    /\ ui = FreshUI
    /\ loads = 1
    /\ runs = <<>>
    /\ speech = NoSpeech
    /\ probe \in PairCalls

\* both page loads run to their end
LoadPair ==
    /\ probe.fn = "generateProfile" /\ probe.state = "pending"
    /\ probe' = [probe EXCEPT
                    !.state = "returned",
                    !.out = [ a |-> PageLoad(env, probe.arg.accounts[1]),
                              b |-> PageLoad(With(env, probe.arg.departure),
                                             probe.arg.accounts[2]) ]]
    /\ UNCHANGED <<env, rel, store, pc, result, wallet, ui, loads, runs, speech>>

NextPair == LoadPair

SpecPair == InitPair /\ [][NextPair]_vars

(***************************************************************************)
(* The wallet listener with its provider.  After init has stored the       *)
(* profile and called initWalletListener, wallet is [request, listening,   *)
(* delivered, current, response, queue, newest]: the eth_accounts request  *)
(* ("sent", "answered", "refused" or "settled"), the accounts the provider *)
(* holds now, the answer on its way to the .then callback, the             *)
(* accountsChanged notifications on their way to the listener, and the     *)
(* most recent non-empty account list the provider has sent.  The provider *)
(* gives no order between its answer and its notifications.                *)
(***************************************************************************)
InitWallet ==
    /\ env = BaseEnv
    /\ rel \in {r \in Releases : r.ui = "part_002"}
    /\ store = setProfile(InitialStore, generateProfile(BaseEnv, rel.hash).profile[1])
    /\ pc = "done"
    /\ result = NoResult
    /\ ui = FreshUI
    /\ loads = 1
    /\ runs = <<generateProfile(BaseEnv, rel.hash)>>
    /\ probe = NoProbe
    /\ speech = NoSpeech
    /\ \E accounts \in AccountLists :
          wallet = [ request |-> "sent", listening |-> TRUE, delivered |-> 0,
                     current |-> accounts, response |-> <<>>, queue |-> <<>>,
                     newest |-> <<>> ]

\* the provider answers eth_accounts with the accounts it holds
ProviderAnswers ==
    /\ wallet.request = "sent"
    /\ wallet' = [wallet EXCEPT !.request = "answered",
                                !.response = wallet.current,
                                !.newest = IF Len(wallet.current) > 0
                                           THEN wallet.current ELSE @]
    /\ UNCHANGED <<env, rel, store, pc, result, ui, loads, runs, probe, speech>>

\* the provider refuses the request
ProviderRefuses ==
    /\ wallet.request = "sent"
    /\ wallet' = [wallet EXCEPT !.request = "refused"]
    /\ UNCHANGED <<env, rel, store, pc, result, ui, loads, runs, probe, speech>>

\* the user switches accounts in the wallet: the provider sends an
\* accountsChanged notification
ProviderChanges(accounts) ==
    /\ wallet.listening
    /\ wallet.delivered + Len(wallet.queue) < MaxWalletEvents
    /\ accounts /= wallet.current
    /\ wallet' = [wallet EXCEPT !.current = accounts,
                                !.queue = Append(@, accounts),
                                !.newest = IF Len(accounts) > 0 THEN accounts ELSE @]
    /\ UNCHANGED <<env, rel, store, pc, result, ui, loads, runs, probe, speech>>

\* the .then callback of the eth_accounts request runs with the answer
DeliverEthAccounts ==
    /\ wallet.request = "answered"
    /\ wallet' = [wallet EXCEPT !.request = "settled", !.response = <<>>]
    /\ store' = IF Len(wallet.response) > 0
                THEN setWalletAddress(store, wallet.response[1]) ELSE store
    /\ UNCHANGED <<env, rel, pc, result, ui, loads, runs, probe, speech>>

\* the request's promise rejects: .catch(() => { })
DeliverRefusal ==
    /\ wallet.request = "refused"
    /\ wallet' = [wallet EXCEPT !.request = "settled"]
    /\ UNCHANGED <<env, rel, store, pc, result, ui, loads, runs, probe, speech>>

\* the accountsChanged callback runs with the oldest notification
DeliverAccountsChanged ==
    /\ wallet.listening
    /\ Len(wallet.queue) > 0
    /\ wallet' = [wallet EXCEPT !.queue = Tail(@), !.delivered = @ + 1]
    /\ store' = IF Len(Head(wallet.queue)) > 0
                THEN setWalletAddress(store, Head(wallet.queue)[1]) ELSE store
    /\ UNCHANGED <<env, rel, pc, result, ui, loads, runs, probe, speech>>

NextWallet ==
    \/ ProviderAnswers
    \/ ProviderRefuses
    \/ \E accounts \in AccountLists : ProviderChanges(accounts)
    \/ DeliverEthAccounts
    \/ DeliverRefusal
    \/ DeliverAccountsChanged

SpecWallet == InitWallet /\ [][NextWallet]_vars

(***************************************************************************)
(* Claims.                                                                 *)
(***************************************************************************)
LastRun == runs[Len(runs)]

\* ---- C1 -----------------------------------------------------------------
\* C1: when the storage key DH_BLACKLIST holds "true", every generateProfile
\* call returns null and computes no master_id, whatever the signals are;
\* once init has resumed the store's error is 'User is blacklisted', and the
\* profile is null throughout.
C1_BlacklistedDeclines ==
    (env.storage = "ok" /\ env.blacklist = "true") =>
        /\ \A i \in DOMAIN runs : runs[i].outcome = "null" /\ runs[i].profile = <<>>
        /\ store.profile = <<>>
        /\ pc = "done" => (store.error = <<"User is blacklisted">> /\ ~store.isLoading)

\* a blacklisted page load that has finished, in an environment whose
\* extractors would have raised
C1_Witness ==
    /\ env.storage = "ok" /\ env.blacklist = "true"
    /\ env.matchMedia = "absent"
    /\ pc = "done"
    /\ store.error = <<"User is blacklisted">>

IsHexString(s) ==
    \A i \in 1..Len(s) : (s[i] >= 48 /\ s[i] <= 57) \/ (s[i] >= 97 /\ s[i] <= 102)

\* C3: in the end-to-end environment (4 cores, the NVIDIA ANGLE renderer,
\* screen 1920x1080, platform "Win32", timezone "Asia/Kolkata") the pipeline
\* yields cpuBucket MID_4, gpuVendor NVIDIA, screenRatio 16:9, platform
\* WINDOWS, timezone Asia/Calcutta and a non-empty hex master_id.
C3_EndToEnd ==
    (env = BaseEnv /\ pc = "awaiting") =>
        /\ result.outcome = "profile"
        /\ getCPUBucket(env) = Returns(Lit.S_MID_4)
        /\ getGPUVendor(env) = Returns(Lit.S_NVIDIA)
        /\ getScreenRatio(env) = Returns(Lit.S_16_9)
        /\ getPlatform(env) = Returns(Lit.S_WINDOWS)
        /\ result.profile[1].meta.tz = Lit.TZ_Asia_Calcutta
        /\ result.profile[1].meta.gpu = Lit.S_NVIDIA
        /\ result.profile[1].meta.platform = Lit.S_WINDOWS
        /\ Len(result.profile[1].master_id.hex) > 0
        /\ IsHexString(result.profile[1].master_id.hex)

\* ---- C4 -----------------------------------------------------------------
\* C4: when the user is not blocked, every generateProfile call completes
\* with a profile, and App never ends in 'Failed to generate profile'.
C4_AlwaysCompletes ==
    ~IsBlacklisted(env) =>
        /\ \A i \in DOMAIN runs : runs[i].outcome = "profile"
        /\ store.error /= <<"Failed to generate profile">>

\* ---- C5 -----------------------------------------------------------------
\* the values each extractor is defined to return
SignalDomain(key) ==
    CASE key = "gpuVendor" ->
            { JStr(Lit.S_NO_WEBGL), JStr(Lit.S_ERROR), JStr(Lit.S_NVIDIA), JStr(Lit.S_AMD),
              JStr(Lit.S_INTEL), JStr(Lit.S_APPLE), JStr(Lit.S_QUALCOMM), JStr(Lit.S_ARM),
              JStr(Lit.S_OTHER) }
      [] key = "cpuBucket" ->
            { JStr(Lit.S_UNKNOWN), JStr(Lit.S_LOW_2), JStr(Lit.S_MID_4), JStr(Lit.S_HIGH_8),
              JStr(Lit.S_ULTRA_8) }
      [] key = "screenRatio" ->
            { JStr(Lit.S_4_3), JStr(Lit.S_3_2), JStr(Lit.S_16_10), JStr(Lit.S_16_9),
              JStr(Lit.S_19_5_9), JStr(Lit.S_21_9) }
      [] key = "touchSupport" ->
            { JStr(Lit.S_NONE), JStr(Lit.S_BASIC), JStr(Lit.S_MULTI), JStr(Lit.S_FULL) }
      [] key = "hoverType" ->
            { JStr(Lit.S_MOUSE), JStr(Lit.S_TOUCH), JStr(Lit.S_HYBRID) }
      [] key \in {"hdrSupport", "reducedMotion", "pdfViewer"} ->
            { JBool(TRUE), JBool(FALSE) }
      [] key = "platform" ->
            { JStr(Lit.S_UNKNOWN), JStr(Lit.S_WINDOWS), JStr(Lit.S_MAC), JStr(Lit.S_LINUX),
              JStr(Lit.S_IOS), JStr(Lit.S_ANDROID), JStr(Lit.S_OTHER) }
      [] key = "mathFingerprint" ->
            { JStr(Substring0(Sample.M_V8, 50)), JStr(Substring0(Sample.M_Gecko, 50)),
              JStr(Lit.S_ERROR) }
      [] key = "tzOffset" -> { JNum(n) : n \in -840..720 }
      [] key = "colorDepth" -> { JNum(n) : n \in 0..48 }

\* C5: every signal extractor returns a value of its domain in every state
\* of the environment, and none raises.
C5_ExtractorsTotal ==
    pc = "awaiting" =>
        \A key \in Range(ProfileSignalKeys(12)) :
            /\ ~Extract(env, key).thrown
            /\ Extract(env, key).v \in SignalDomain(key)

\* ---- C6 -----------------------------------------------------------------
Addresses == {accounts[1] : accounts \in AccountLists \ {<<>>}}

\* C6: whatever wallet events have been applied, a stored profile's
\* master_id is the one generateProfile computed for this page load; on a
\* store without a profile setWalletAddress leaves the profile null.
C6_WalletKeepsMasterId ==
    /\ store.profile /= <<>> =>
          /\ LastRun.outcome = "profile"
          /\ store.profile[1].master_id = LastRun.profile[1].master_id
    /\ store.profile = <<>> =>
          \A a \in Addresses : setWalletAddress(store, a).profile = <<>>

\* the eth_accounts response and two accountsChanged notifications have
\* been applied to a stored profile
C6_Witness ==
    /\ store.profile /= <<>>
    /\ wallet.request = "settled"
    /\ wallet.delivered = 2
    /\ store.profile[1].wallet_address = "0xB2"

\* ---- C7 -----------------------------------------------------------------
\* C7: a step that leaves a profile stored changes nothing of it but
\* wallet_address: master_id, confidence_score and meta are as before.
C7_OnlyWalletAddressChanges ==
    [][ (store.profile /= <<>> /\ store'.profile /= <<>>) =>
            [store'.profile[1] EXCEPT !.wallet_address = store.profile[1].wallet_address]
                = store.profile[1] ]_vars

\* ---- C8 -----------------------------------------------------------------
\* the field order the claim states
C8_FieldOrder(version) ==
    IF version = 12
    THEN << "gpuVendor", "cpuBucket", "screenRatio", "colorDepth", "touchSupport",
            "hoverType", "hdrSupport", "reducedMotion", "pdfViewer",
            "mathFingerprint", "tzOffset", "platform" >>
    ELSE << "gpuVendor", "cpuBucket", "screenRatio", "colorDepth", "touchSupport",
            "hoverType", "hdrSupport", "reducedMotion", "pdfViewer",
            "tzOffset", "platform" >>

\* the sequence with the elements at i and j exchanged
SwapAt(seq, i, j) ==
    [k \in DOMAIN seq |-> IF k = i THEN seq[j] ELSE IF k = j THEN seq[i] ELSE seq[k]]

\* the values of the fields of the claim's order, as join prints them
C8_Values ==
    LET signals == CollectSignals(env, ProfileSignalKeys(rel.hash)).v
        order == C8_FieldOrder(rel.hash)
    IN  [i \in DOMAIN order |-> ToStringJS(signals[order[i]])]

\* C8 as stated: master_id is the digest of the values joined with "||" in
\* the stated order, and exchanging two fields that hold different values
\* changes the master string and the master_id.
C8_OrderSensitive ==
    (pc = "awaiting" /\ result.outcome = "profile") =>
        LET id == result.profile[1].master_id
            values == C8_Values
            joined == Join(values, Lit.SEP)
        IN  /\ id = sha256(env.subtle, joined)
            /\ \A i, j \in DOMAIN values :
                  (i < j /\ values[i] /= values[j]) =>
                      LET swapped == Join(SwapAt(values, i, j), Lit.SEP)
                      IN  /\ swapped /= joined
                          /\ sha256(env.subtle, swapped) /= id

\* C8 amended: master_id is the digest of the values joined with "||" in
\* the stated order; exchanging two fields that hold different values
\* changes the master string, and changes master_id when the digest is the
\* cryptographic one (on the fallback path two master strings can share a
\* digest).
C8_OrderSensitiveSubtle ==
    (pc = "awaiting" /\ result.outcome = "profile") =>
        LET id == result.profile[1].master_id
            values == C8_Values
            joined == Join(values, Lit.SEP)
        IN  /\ id = sha256(env.subtle, joined)
            /\ \A i, j \in DOMAIN values :
                  (i < j /\ values[i] /= values[j]) =>
                      LET swapped == Join(SwapAt(values, i, j), Lit.SEP)
                      IN  /\ swapped /= joined
                          /\ id.via = "subtle" => sha256(env.subtle, swapped) /= id

\* a profile has been computed on the cryptographic path from a signal set in
\* which fields differ
C8_Witness ==
    /\ pc = "awaiting"
    /\ result.outcome = "profile"
    /\ result.profile[1].master_id.via = "subtle"
    /\ rel.hash = 12
    /\ C8_Values[4] /= C8_Values[11]

\* ---- C9 -----------------------------------------------------------------
\* C9: after the page's own raw JSON output has been pasted and compared,
\* every row reports MATCH.
C9_SelfCompareMatches ==
    (Rendered /\ ui.pasted = "own") =>
        \A i \in DOMAIN Statuses : Statuses[i] = "MATCH"

\* ---- C10 ----------------------------------------------------------------
\* C10: when the imported set is unset or is the empty object {}, every row
\* reports no comparison data: none reports MATCH or DIFF.
C10_EmptyImportDisablesComparison ==
    (Rendered /\ ui.pasted \in {"none", "null", "emptyObject"}) =>
        \A i \in DOMAIN Statuses : Statuses[i] = ""

\* ---- C11 ----------------------------------------------------------------
\* the texts of Sources that JSON.parse rejects
InvalidSources == {s \in Sources \cup {"empty"} : PastedText(s) = InvalidText}

\* C11: once a text that is not valid JSON has been compared the error is
\* 'Invalid JSON', the imported set is cleared and no row shows MATCH or
\* DIFF; once a valid text has been compared (also after an invalid one)
\* the error is empty; whatever has been compared, the stored profile is
\* the one generateProfile returned and the signals are the ones
\* getSignals returned.
C11_InvalidJSON ==
    (Rendered /\ ui.pasted /= "none") =>
        /\ ui.pasted \in InvalidSources =>
              /\ ui.compareError = "Invalid JSON"
              /\ ui.compareData = <<>>
              /\ \A i \in DOMAIN Statuses : Statuses[i] = ""
        /\ (ui.pasted \in Sources \ InvalidSources) => ui.compareError = ""
        /\ store.profile = LastRun.profile
        /\ store.error = <<>>
        /\ rel.ui = "part_002" => ui.signals = getSignalsEffect(env, rel.hash).signals

\* an invalid text has been compared
C11_Witness ==
    /\ Rendered
    /\ ui.pasted = "garbage"
    /\ ui.compareError = "Invalid JSON"
    /\ ui.compareData = <<>>

\* ---- C12 ----------------------------------------------------------------
\* C12: normalize returns "UNKNOWN" for null or empty raw input under every
\* category, and returns a string for every category and every raw string.
C12_NormalizeTotal ==
    (probe.fn = "normalize" /\ probe.state = "returned") =>
        /\ probe.arg.data = <<>> => probe.out = Lit.S_UNKNOWN
        /\ IsString(probe.out)

\* ---- C13 ----------------------------------------------------------------
\* the canonical name the alias table of the claim gives a timezone name
C13_Canonical(name) ==
    CASE name = Lit.TZ_Asia_Kolkata -> Lit.TZ_Asia_Calcutta
      [] name = Lit.TZ_Asia_Kathmandu -> Lit.TZ_Asia_Katmandu
      [] name = Lit.TZ_America_Montreal -> Lit.TZ_America_Toronto
      [] name = Lit.TZ_Europe_Kyiv -> Lit.TZ_Europe_Kiev
      [] OTHER -> name

\* C13: normalize("timezone", name) maps each alias to its canonical name,
\* returns every other non-empty name unchanged, and applied to its own
\* result returns that result.
C13_TimezoneAliases ==
    (probe.fn = "normalize" /\ probe.state = "returned" /\ probe.arg.type = "timezone"
        /\ probe.arg.data /= <<>>) =>
        /\ probe.out = C13_Canonical(probe.arg.data)
        /\ normalize("timezone", probe.out) = probe.out

\* ---- C14 ----------------------------------------------------------------
\* the label the ordered rules of the claim give a raw platform string
C14_FirstMatch(raw) ==
    LET rules == << [hit |-> StartsWith(raw, Lit.P_Win), label |-> Lit.S_WINDOWS],
                    [hit |-> StartsWith(raw, Lit.P_Mac), label |-> Lit.S_MAC],
                    [hit |-> StartsWith(raw, Lit.P_Linux), label |-> Lit.S_LINUX],
                    [hit |-> Includes(raw, Lit.P_iPhone) \/ Includes(raw, Lit.P_iPad),
                     label |-> Lit.S_IOS],
                    [hit |-> Includes(raw, Lit.P_Android), label |-> Lit.S_ANDROID] >>
        hits == {i \in DOMAIN rules : rules[i].hit}
    IN  IF hits = {} THEN Lit.S_OTHER
        ELSE rules[CHOOSE i \in hits : \A j \in hits : i <= j].label

\* C14: normalize("platform", raw) returns, for every non-empty raw string,
\* one of WINDOWS, MAC, LINUX, IOS, ANDROID, OTHER: the label of the first
\* rule that matches in the order Win, Mac, Linux (prefix), iPhone/iPad,
\* Android (substring), else OTHER.
C14_PlatformBuckets ==
    (probe.fn = "normalize" /\ probe.state = "returned" /\ probe.arg.type = "platform"
        /\ probe.arg.data /= <<>>) =>
        /\ probe.out \in { Lit.S_WINDOWS, Lit.S_MAC, Lit.S_LINUX, Lit.S_IOS,
                            Lit.S_ANDROID, Lit.S_OTHER }
        /\ probe.out = C14_FirstMatch(probe.arg.data)

\* a platform string that a prefix rule and a substring rule both match has
\* been normalized
C14_Witness ==
    /\ probe.fn = "normalize" /\ probe.state = "returned"
    /\ probe.arg.type = "platform"
    /\ StartsWith(probe.arg.data, Lit.P_Linux) /\ Includes(probe.arg.data, Lit.P_Android)
    /\ probe.out = Lit.S_LINUX

\* ---- C15 ----------------------------------------------------------------
\* the bucket of the first keyword group, in the order NVIDIA, AMD, INTEL,
\* APPLE, QUALCOMM, ARM, that occurs in the lower-cased string s, else OTHER
C15_Bucket(s) ==
    LET groups == << [keys |-> {Lit.K_nvidia, Lit.K_geforce}, label |-> Lit.S_NVIDIA],
                     [keys |-> {Lit.K_amd, Lit.K_radeon}, label |-> Lit.S_AMD],
                     [keys |-> {Lit.K_intel}, label |-> Lit.S_INTEL],
                     [keys |-> {Lit.K_apple}, label |-> Lit.S_APPLE],
                     [keys |-> {Lit.K_qualcomm, Lit.K_adreno}, label |-> Lit.S_QUALCOMM],
                     [keys |-> {Lit.K_arm, Lit.K_mali}, label |-> Lit.S_ARM] >>
        hits == {i \in DOMAIN groups : \E k \in groups[i].keys : Includes(s, k)}
    IN  IF hits = {} THEN Lit.S_OTHER
        ELSE groups[CHOOSE i \in hits : \A j \in hits : i <= j].label

\* C15: getGPUVendor returns NO_WEBGL without a WebGL context, ERROR when a
\* step throws, and otherwise the bucket of the first keyword group that
\* occurs in the lower-cased strings, else OTHER; an exposed unmasked
\* renderer string that names a vendor decides the bucket, whatever the
\* masked vendor and renderer strings say.
C15_GPUVendorBuckets ==
    (probe.fn = "getGPUVendor" /\ probe.state = "returned") =>
        LET g == probe.arg
            masked == ToLowerCase(g.glVendor) \o <<32>> \o ToLowerCase(g.glRenderer)
            unmasked == ToLowerCase(g.glUnmasked)
        IN  /\ ~probe.out.thrown
            /\ g.gl = "none" => probe.out.v = Lit.S_NO_WEBGL
            /\ g.gl = "throws" => probe.out.v = Lit.S_ERROR
            /\ g.gl = "ok" =>
                  IF g.glDebugInfo /\ C15_Bucket(unmasked) /= Lit.S_OTHER
                  THEN probe.out.v = C15_Bucket(unmasked)
                  ELSE IF g.glDebugInfo
                  THEN probe.out.v = C15_Bucket(masked \o <<32>> \o unmasked)
                  ELSE probe.out.v = C15_Bucket(masked)

\* ---- C16 ----------------------------------------------------------------
\* the number a two-decimal score string denotes, in hundredths
C16_Hundredths(score) ==
    CASE score = "1.00" -> 100
      [] score = "0.95" -> 95
      [] score = "0.90" -> 90

\* a high-value signal that did not resolve
C16_Degraded(v) == v.s \in {Lit.S_OTHER, Lit.S_ERROR, Lit.S_NO_WEBGL}

\* WebGL states of the device: resolved vendors and degraded readings
C16_GPUStates ==
    { [gl |-> "none"], [gl |-> "throws"], [glUnmasked |-> Sample.R_Llvmpipe],
      [glUnmasked |-> Sample.R_AppleGPU], [glUnmasked |-> Sample.R_AngleNvidia] }

\* C16: confidence_score is monotone in signal quality.  Against the stored
\* profile, the profile of the same device and wallet history with the GPU
\* vendor signal replaced has a score that is no lower when a degraded
\* value is replaced by a resolved one, and no higher when a resolved value
\* is replaced by a degraded one.
C16_ConfidenceMonotone ==
    store.profile /= <<>> =>
        LET p == store.profile[1]
            signals == CollectSignals(env, ProfileSignalKeys(rel.hash)).v
        IN  \A g \in C16_GPUStates :
                LET other == [signals EXCEPT !["gpuVendor"] = JStr(getGPUVendor(With(env, g)).v)]
                    fresh == [p EXCEPT !.confidence_score = ConfidenceScore(other),
                                       !.wallet_address = "none"]
                    q == IF p.wallet_address = "none" THEN fresh
                         ELSE setWalletAddress([store EXCEPT !.profile = <<fresh>>],
                                               p.wallet_address).profile[1]
                    was == C16_Hundredths(p.confidence_score)
                    is == C16_Hundredths(q.confidence_score)
                IN  /\ (C16_Degraded(signals["gpuVendor"]) /\ ~C16_Degraded(other["gpuVendor"]))
                          => is >= was
                    /\ (~C16_Degraded(signals["gpuVendor"]) /\ C16_Degraded(other["gpuVendor"]))
                          => is <= was

\* a profile of a device without WebGL is stored and a wallet has been
\* attached in the store of App.tsx
C16_Witness ==
    /\ store.profile /= <<>>
    /\ store.profile[1].meta.gpu = Lit.S_NO_WEBGL
    /\ store.profile[1].wallet_address /= "none"
    /\ store.profile[1].confidence_score = "1.00"

\* ---- C17 ----------------------------------------------------------------
\* C17: sha256 never rejects.  With crypto.subtle present and succeeding the
\* result is the SHA-256 digest in hex; with the API absent, throwing or
\* rejecting, the promise resolves with the fallback hash of the same
\* message.
C17_DigestNeverFails ==
    (probe.fn = "sha256" /\ probe.state = "returned") =>
        LET subtle == probe.arg.subtle
            message == probe.arg.message
        IN  /\ probe.out.via \in {"subtle", "fallback"}
            /\ subtle = "ok" =>
                  /\ probe.out.via = "subtle"
                  /\ probe.out.hex = HexOfBytes(SubtleDigest(message).bytes)
                  /\ Len(probe.out.hex) = 64
            /\ subtle /= "ok" =>
                  /\ probe.out.via = "fallback"
                  /\ probe.out.hex = FallbackHash(message)
                  /\ Len(probe.out.hex) > 0

\* a call whose crypto.subtle.digest promise rejected has resolved with the
\* fallback hash
C17_Witness ==
    /\ probe.fn = "sha256" /\ probe.state = "returned"
    /\ probe.arg.subtle = "rejects"
    /\ Len(probe.arg.message) > 100
    /\ probe.out.via = "fallback"

\* ---- C18 ----------------------------------------------------------------
RECURSIVE C18_Polynomial(_, _)
\* h := 31*h + charCode over the characters of message in order, from acc,
\* in unbounded arithmetic
C18_Polynomial(message, acc) ==
    IF message = <<>> THEN acc
    ELSE C18_Polynomial(Tail(message), 31 * acc + Head(message))

RECURSIVE C18_Hex(_)
\* the hexadecimal numeral of a natural number
C18_Hex(n) ==
    IF n < 16 THEN <<HexDigit(n)>> ELSE C18_Hex(n \div 16) \o <<HexDigit(n % 16)>>

\* messages whose rolling hash wraps, with |h| in hex
C18_Wrapped ==
    { [ message |-> <<112, 111, 108, 121, 103, 101, 110, 101, 108, 117, 98, 114, 105, 99, 97,
                      110, 116, 115>>,                      \* "polygenelubricants"
        hex |-> <<56, 48, 48, 48, 48, 48, 48, 48>> ],       \* h = -2^31: "80000000"
      [ message |-> <<102, 105, 110, 103, 101, 114, 112, 114, 105, 110, 116>>,  \* "fingerprint"
        hex |-> <<53, 50, 48, 51, 49, 55, 49, 99>> ],       \* h = -1375934236: "5203171c"
      [ message |-> <<255, 256, 65535, 55357, 56832>>,
        hex |-> <<49, 50, 53, 57, 100, 50, 50, 49>> ] }     \* "1259d221"

\* C18: on the fallback path the digest is the hex form of |h| for the
\* rolling hash h := 31*h + charCode, wrapped to a signed 32-bit integer
\* after every character, from 0: a string of 1 to 8 hex digits without a
\* sign, "0" for the empty message, the same for equal messages.
C18_RollingHash ==
    (probe.fn = "sha256" /\ probe.state = "returned" /\ probe.out.via = "fallback") =>
        LET message == probe.arg.message
            hex == probe.out.hex
        IN  /\ Len(hex) \in 1..8
            /\ IsHexString(hex)
            /\ (Len(hex) > 1 => hex[1] /= 48)
            /\ message = <<>> => hex = <<48>>
            /\ Len(message) <= 4 => hex = C18_Hex(C18_Polynomial(message, 0))
            /\ \A w \in C18_Wrapped : w.message = message => hex = w.hex
            /\ \A c \in SubtleStates \ {"ok"} : sha256(c, message).hex = hex

\* the fallback hash of a message on which the 32-bit value wraps to the
\* most negative integer has been returned
C18_Witness ==
    /\ probe.fn = "sha256" /\ probe.state = "returned"
    /\ probe.out.via = "fallback"
    /\ probe.out.hex = <<56, 48, 48, 48, 48, 48, 48, 48>>

\* ---- C19 ----------------------------------------------------------------
\* the V<count>_... fingerprints of the non-empty voice lists
C19_Fingerprints ==
    { BuiltFingerprint[n].v : n \in {m \in VoiceListNames : m /= "none" /\ ~BuiltFingerprint[m].thrown} }

\* a call that found the voice list empty resolves by a notification, with
\* a fingerprint, or by its timeout, with a fingerprint or NO_VOICES
C19_ResolvedByFirst ==
    \A k \in DOMAIN speech.calls :
        (speech.calls[k].waited /\ speech.calls[k].state = "resolved") =>
            \/ speech.calls[k].by = "notification" /\ speech.calls[k].value \in C19_Fingerprints
            \/ /\ speech.calls[k].by = "timeout"
               /\ speech.calls[k].value \in C19_Fingerprints \cup {SpeechLit.S_NO_VOICES}

\* a settled promise keeps its value
C19_SettledOnce ==
    \A k \in DOMAIN speech.calls :
        speech.calls[k].state = "resolved" =>
            /\ speech'.calls[k].state = "resolved"
            /\ speech'.calls[k].value = speech.calls[k].value

\* C19: a getVoicesFingerprint call whose immediate read of the voice list
\* is empty resolves exactly once, by the first of a voiceschanged
\* notification with a non-empty list and the 500ms timeout; every call
\* eventually resolves, also when building the fingerprint fails in the
\* notification callback.
C19_EveryCallResolves ==
    /\ [](speech.api /= "unused" => C19_ResolvedByFirst)
    /\ [][speech.api /= "unused" => C19_SettledOnce]_vars
    /\ \A k \in 1..MaxVoiceCalls :
          [](k \in DOMAIN speech.calls =>
                <>(k \in DOMAIN speech.calls /\ speech.calls[k].state = "resolved"))

\* ---- C20 ----------------------------------------------------------------
\* C20: cachedVoicesFingerprint starts empty, is only ever set to a
\* V<count>_... fingerprint, keeps its value once set whatever timeout,
\* notification or call follows, and every call made after it is set
\* returns that value.
C20_CacheWrittenOnce ==
    /\ [](speech.api /= "unused" =>
            /\ speech.cache /= <<>> => speech.cache[1] \in C19_Fingerprints
            /\ \A k \in DOMAIN speech.calls :
                  speech.calls[k].cached /= <<>> =>
                      /\ speech.calls[k].state = "resolved"
                      /\ speech.calls[k].value = speech.calls[k].cached[1])
    /\ [][(speech.api /= "unused" /\ speech.cache /= <<>>) => speech'.cache = speech.cache]_vars

\* ---- C21 ----------------------------------------------------------------
\* the call whose closure is assigned to onvoiceschanged has not resolved
C21_Unsubscribed ==
    \A k \in DOMAIN speech.calls :
        speech.calls[k].state = "resolved" => speech.handler /= k

\* a voiceschanged notification delivered to the closure of a resolved call
\* leaves cachedVoicesFingerprint alone
C21_NoLateWrite ==
    ( /\ speech.handler \in DOMAIN speech.calls
      /\ speech.calls[speech.handler].state = "resolved"
      /\ speech'.events > speech.events ) => speech'.cache = speech.cache

\* C21: once a getVoicesFingerprint call has resolved, its voiceschanged
\* subscription is cleared: no callback registered by the call runs or
\* writes shared state after the resolution.
C21_SubscriptionCleared ==
    /\ [](speech.api /= "unused" => C21_Unsubscribed)
    /\ [][speech.api /= "unused" => C21_NoLateWrite]_vars

\* ---- C22 ----------------------------------------------------------------
\* C22: two environments that agree on every field of the master string
\* and differ only in the IANA time-zone name, the available-screen-height
\* bucket and the wallet address produce the same master_id.
C22_MasterIdIgnoresDisplayValues ==
    (probe.fn = "generateProfile" /\ probe.state = "returned") =>
        /\ (probe.out.a.profile = <<>>) <=> (probe.out.b.profile = <<>>)
        /\ probe.out.a.profile /= <<>> =>
              probe.out.a.profile[1].master_id = probe.out.b.profile[1].master_id

\* two loads of the 11-signal release whose profiles differ in anchors.tz
\* and in the wallet address, in environments with different
\* available-screen buckets
C22_Witness ==
    /\ probe.fn = "generateProfile" /\ probe.state = "returned"
    /\ rel.hash = 11
    /\ probe.out.a.profile /= <<>> /\ probe.out.b.profile /= <<>>
    /\ probe.out.a.profile[1].meta.tz /= probe.out.b.profile[1].meta.tz
    /\ probe.out.a.profile[1].wallet_address /= probe.out.b.profile[1].wallet_address
    /\ getAvailableScreen(env).v /=
          getAvailableScreen(With(env, probe.arg.departure)).v

\* ---- C23 ----------------------------------------------------------------
\* init has finished: isLoading is false and exactly one of profile and
\* error is set, according to what generateProfile returned
C23_Finished ==
    /\ ~store.isLoading
    /\ (store.profile = <<>>) /= (store.error = <<>>)
    /\ (store.profile /= <<>>) <=> (LastRun.outcome = "profile")

\* the wallet listener goes from idle to started only in the step of init
\* that stores the profile
C23_ListenerWithProfile ==
    (wallet = IdleWallet /\ wallet' /= IdleWallet) =>
        (store.profile = <<>> /\ store'.profile /= <<>>)

C24_Quiet ==
    /\ wallet.request = "settled"
    /\ Len(wallet.queue) = 0

\* C24: once all pending wallet callbacks have run, the stored
\* wallet_address is the first account of the most recent non-empty account
\* list the provider sent: an eth_accounts answer arriving after an
\* accountsChanged notification does not replace the newer address by the
\* older one, and an empty list leaves the address as it is.
C24_NewestAccountWins ==
    ("newest" \in DOMAIN wallet /\ C24_Quiet) =>
        store.profile[1].wallet_address =
            IF Len(wallet.newest) > 0 THEN wallet.newest[1] ELSE "none"

\* ---- C25 ----------------------------------------------------------------
\* C25: generateProfile declines exactly when the stored flag reads as the
\* string "true"; when reading the flag throws, or the key is absent or
\* holds another value, the call proceeds and returns a profile, neither
\* null nor a rejection.
C25_DeclinesOnlyOnTrue ==
    \A i \in DOMAIN runs :
        /\ (runs[i].outcome = "null") <=> (env.storage = "ok" /\ env.blacklist = "true")
        /\ ~(env.storage = "ok" /\ env.blacklist = "true") =>
              (runs[i].outcome = "profile" /\ runs[i].profile /= <<>>)
====
